---- MODULE Spec2Model ----
(***************************************************************************)
(* State-machine model of the BMP image processing program: the 8-bit      *)
(* grayscale codec (bmp8.c), the 24-bit colour codec (bmp24.c), the point  *)
(* transforms and the convolution engine, and check_bmp_type (main.c).     *)
(*                                                                         *)
(* A file is the sequence of its bytes (1-indexed: byte offset o of the    *)
(* file is element o+1).  An image is a record tagged by kind; the null    *)
(* pointer is the record NULL.  Every function of the program is an        *)
(* operator that follows the function's control flow and returns what the  *)
(* call leaves behind: the image or file, the number of fopen calls that   *)
(* succeeded and the number of fclose calls made.                          *)
(***************************************************************************)
EXTENDS Integers, Sequences, FiniteSets, TLC

VARIABLES file, img, last, steps, heap, menu

vars == <<file, img, last, steps, heap, menu>>

(***************************************************************************)
(* Bounds of the exploration.                                              *)
(***************************************************************************)
MaxWidth == 5
MaxHeight == 5
MaxSteps == 3
NumPatterns == 1
MaxHeapSteps == 2
MaxMenuSteps == 4
MaxPadWidth == 40

(***************************************************************************)
(* Program constants.                                                      *)
(***************************************************************************)
BMP8_HEADER_SIZE == 54
BMP8_COLORTABLE_SIZE == 1024
BMP_TYPE == 19778
BMP_HEADER_SIZE == 14
BMP_INFOHEADER_SIZE == 40
BITMAP_MAGIC_OFFSET == 0
BITMAP_SIZE_OFFSET == 2
BITMAP_OFFSET_OFFSET == 10
BITMAP_INFO_SIZE_OFFSET == 14
BITMAP_WIDTH_OFFSET == 18
BITMAP_HEIGHT_OFFSET == 22
BITMAP_PLANES_OFFSET == 26
BITMAP_DEPTH_OFFSET == 28
BITMAP_COMPRESSION_OFFSET == 30
BITMAP_SIZE_RAW_OFFSET == 34
BITMAP_XRES_OFFSET == 38
BITMAP_YRES_OFFSET == 42
BITMAP_NCOLORS_OFFSET == 46
BITMAP_IMPORTANTCOLORS_OFFSET == 50
INT_MAX == 2147483647

INT_MIN == -INT_MAX - 1

NULL == [kind |-> "NULL"]

\* An image record whose data pointer is NULL (no other field of it is read).
NODATA8 == [kind |-> "bmp8_nodata"]

NODATA24 == [kind |-> "bmp24_nodata"]

\* if (!img || !img->data)
Absent(image) == image.kind \in {"NULL", "bmp8_nodata", "bmp24_nodata"}

Byte == 0..255

(***************************************************************************)
(* Little-endian decoding and encoding of the integer fields (x86 layout   *)
(* of uint16_t / uint32_t / int32_t).  A uint32_t is represented by the    *)
(* int32_t with the same bits: a value of 2^31 or more appears as a        *)
(* negative number, and every use of such a field below is written for     *)
(* that representation.                                                    *)
(***************************************************************************)
U16At(f, off) == f[off + 1] + 256 * f[off + 2]

I32At(f, off) ==
    f[off + 1] + 256 * f[off + 2] + 65536 * f[off + 3]
      + 16777216 * (IF f[off + 4] >= 128 THEN f[off + 4] - 256 ELSE f[off + 4])

U32At(f, off) == I32At(f, off)

LE16(n) == <<n % 256, (n \div 256) % 256>>

LE32(n) == <<n % 256, (n \div 256) % 256, (n \div 65536) % 256, (n \div 16777216) % 256>>

Zeros(n) == [i \in 1..n |-> 0]

Min(a, b) == IF a < b THEN a ELSE b

Max(a, b) == IF a > b THEN a ELSE b

(***************************************************************************)
(* fseek(file, pos, SEEK_SET) followed by fwrite of `bytes`: bytes between *)
(* the old end of file and pos read back as zero.                          *)
(***************************************************************************)
WriteAt(f, pos, bytes) ==
    LET newLen == Max(Len(f), pos + Len(bytes))
    IN [i \in 1..newLen |->
          IF i > pos /\ i <= pos + Len(bytes) THEN bytes[i - pos]
          ELSE IF i <= Len(f) THEN f[i]
          ELSE 0]

(***************************************************************************)
(* The heap.  A call leaves a trace of events, malloc (or calloc) of a     *)
(* block and free of a block, in the order the code makes them; a block is *)
(* named by the variable that holds it and, for the rows of an array, its  *)
(* index (0 otherwise).  A malloc that fails leaves no event.              *)
(***************************************************************************)
Malloc(name, i) == [ev |-> "malloc", blk |-> <<name, i>>]

Free(name, i) == [ev |-> "free", blk |-> <<name, i>>]

\* for (j = 0; j < n; j++) ... malloc / free of row j
MallocRows(name, n) == [j \in 1..n |-> Malloc(name, j)]

FreeRows(name, n) == [j \in 1..n |-> Free(name, j)]

(***************************************************************************)
(* bmp8_loadImage.  env.fopenOk, env.mallocImgOk, env.mallocDataOk are the *)
(* outcomes of fopen and of the two malloc calls (malloc(0) may return     *)
(* NULL or a pointer, both are covered by mallocDataOk).  The fread of the *)
(* pixel data fails when fewer than dataSize bytes follow the colour       *)
(* table (always so when dataSize is 2^31 or more).                        *)
(***************************************************************************)
\* img->dataSize = *(unsigned int *)&img->header[34]
bmp8_headerDataSize(header) == U32At(header, 34)

\* The same exit without its fclose.
bmp8_loadImage_shortData_noClose ==
    [img |-> NULL, opened |-> 1, closed |-> 0,
     heap |-> <<Malloc("img", 0), Malloc("data", 0), Free("data", 0), Free("img", 0)>>]

\* the exit taken when fread of the pixel data comes short: free(img->data),
\* free(img), fclose(file), return NULL
bmp8_loadImage_shortData ==
    [img |-> NULL, opened |-> 1, closed |-> 1,
     heap |-> <<Malloc("img", 0), Malloc("data", 0), Free("data", 0), Free("img", 0)>>]

\* the exits taken before img->data is allocated: free(img), fclose(file),
\* return NULL
bmp8_loadImage_rejected ==
    [img |-> NULL, opened |-> 1, closed |-> 1,
     heap |-> <<Malloc("img", 0), Free("img", 0)>>]

bmp8_loadImage(f, env) ==
    IF ~env.fopenOk THEN [img |-> NULL, opened |-> 0, closed |-> 0, heap |-> <<>>]
    ELSE IF ~env.mallocImgOk THEN [img |-> NULL, opened |-> 1, closed |-> 1, heap |-> <<>>]
    ELSE IF Len(f) < BMP8_HEADER_SIZE THEN bmp8_loadImage_rejected
    ELSE IF f[1] # 66 \/ f[2] # 77 THEN bmp8_loadImage_rejected
    ELSE
      LET header == SubSeq(f, 1, BMP8_HEADER_SIZE)
          width == U32At(header, 18)
          height == U32At(header, 22)
          colorDepth == U16At(header, 28)
          dataSize == bmp8_headerDataSize(header)
          tableEnd == BMP8_HEADER_SIZE + BMP8_COLORTABLE_SIZE
      IN IF colorDepth # 8 THEN bmp8_loadImage_rejected
         ELSE IF Len(f) < tableEnd THEN bmp8_loadImage_rejected
         ELSE IF ~env.mallocDataOk THEN bmp8_loadImage_rejected
         ELSE IF dataSize < 0 \/ dataSize > Len(f) - tableEnd
           THEN bmp8_loadImage_shortData
         ELSE [img |-> [kind |-> "bmp8",
                        header |-> header,
                        colorTable |-> SubSeq(f, BMP8_HEADER_SIZE + 1, tableEnd),
                        data |-> SubSeq(f, tableEnd + 1, tableEnd + dataSize),
                        width |-> width,
                        height |-> height,
                        colorDepth |-> colorDepth,
                        dataSize |-> dataSize],
               opened |-> 1, closed |-> 1,
               heap |-> <<Malloc("img", 0), Malloc("data", 0)>>]

(***************************************************************************)
(* bmp8_saveImage.  old is the file at the path before the call; fail      *)
(* names the first stdio call that fails ("none": all succeed).  fopen     *)
(* with "wb" truncates the file; a failed fwrite is taken to write nothing *)
(* of its block.                                                           *)
(***************************************************************************)
\* A save that writes width*height bytes instead of dataSize bytes.
bmp8_savedData_widthHeight(image) ==
    SubSeq(image.data, 1, Min(image.dataSize, image.width * image.height))

\* fwrite(img->data, 1, img->dataSize, file)
bmp8_savedData(image) == SubSeq(image.data, 1, image.dataSize)

bmp8_saveImage(old, image, fail) ==
    IF fail = "fopen" THEN [file |-> old, ok |-> FALSE, opened |-> 0, closed |-> 0]
    ELSE IF fail = "header" THEN [file |-> <<>>, ok |-> FALSE, opened |-> 1, closed |-> 1]
    ELSE IF fail = "table"
      THEN [file |-> image.header, ok |-> FALSE, opened |-> 1, closed |-> 1]
    ELSE IF fail = "data"
      THEN [file |-> image.header \o image.colorTable, ok |-> FALSE,
            opened |-> 1, closed |-> 1]
    ELSE [file |-> image.header \o image.colorTable \o bmp8_savedData(image),
          ok |-> TRUE, opened |-> 1, closed |-> 1]

(***************************************************************************)
(* 24-bit codec: t_pixel is {blue, green, red} in memory order.            *)
(***************************************************************************)
PixelByte(p, c) == IF c = 0 THEN p.blue ELSE IF c = 1 THEN p.green ELSE p.red

\* (width * 3 + 3) & (~3) on a non-negative int: clear the two low bits.
RowPaddedSize(width) == (width * 3 + 3) - ((width * 3 + 3) % 4)

\* memset(&img->header, 0, ...), memset(&img->header_info, 0, ...)
ZeroHeader == [type |-> 0, size |-> 0, reserved1 |-> 0, reserved2 |-> 0, offset |-> 0]

ZeroHeaderInfo ==
    [size |-> 0, width |-> 0, height |-> 0, planes |-> 0, bits |-> 0,
     compression |-> 0, imagesize |-> 0, xresolution |-> 0, yresolution |-> 0,
     ncolors |-> 0, importantcolors |-> 0]

(***************************************************************************)
(* bmp24_allocateDataPixels: allocFail = 0 when every malloc succeeds,     *)
(* 1 when the row array fails, 1 + i when the malloc of row i (1-based)    *)
(* fails.  The rows are not initialised: every byte is the heap's junk.    *)
(***************************************************************************)
bmp24_allocateDataPixels(width, height, allocFail, junk) ==
    IF width <= 0 \/ height <= 0 THEN NULL
    ELSE IF allocFail >= 1 /\ allocFail <= 1 + height THEN NULL
    ELSE [kind |-> "pixels",
          rows |-> [y \in 1..height |->
                      [x \in 1..width |-> [blue |-> junk, green |-> junk, red |-> junk]]]]

\* A bmp24_allocateDataPixels whose row-failure path frees the row array
\* and leaves the rows allocated before the failure.
bmp24_allocateDataPixelsHeap_leakRows(name, width, height, allocFail) ==
    IF width <= 0 \/ height <= 0 THEN <<>>
    ELSE IF allocFail = 1 THEN <<>>
    ELSE IF allocFail >= 2 /\ allocFail <= 1 + height
      THEN <<Malloc(name, 0)>> \o MallocRows(name, allocFail - 2) \o <<Free(name, 0)>>
    ELSE <<Malloc(name, 0)>> \o MallocRows(name, height)

\* the heap events of bmp24_allocateDataPixels; name is the variable that
\* receives the row array: on the failure of row i the rows before it and
\* the row array are freed
bmp24_allocateDataPixelsHeap(name, width, height, allocFail) ==
    IF width <= 0 \/ height <= 0 THEN <<>>
    ELSE IF allocFail = 1 THEN <<>>
    ELSE IF allocFail >= 2 /\ allocFail <= 1 + height
      THEN <<Malloc(name, 0)>> \o MallocRows(name, allocFail - 2)
             \o FreeRows(name, allocFail - 2) \o <<Free(name, 0)>>
    ELSE <<Malloc(name, 0)>> \o MallocRows(name, height)

\* A bmp24_freeDataPixels that frees the row array and none of the rows.
bmp24_freeDataPixelsHeap_arrayOnly(name, height) == <<Free(name, 0)>>

\* bmp24_freeDataPixels(pixels, height)
bmp24_freeDataPixelsHeap(name, height) == FreeRows(name, height) \o <<Free(name, 0)>>

(***************************************************************************)
(* bmp24_allocate: allocFail = 1 is the malloc of the t_bmp24 record, the  *)
(* later ones are those of bmp24_allocateDataPixels.                       *)
(***************************************************************************)
bmp24_allocate(width, height, colorDepth, allocFail, junk) ==
    IF width <= 0 \/ height <= 0 THEN NULL
    ELSE IF allocFail = 1 THEN NULL
    ELSE LET pixels == bmp24_allocateDataPixels(width, height,
                           IF allocFail = 0 THEN 0 ELSE allocFail - 1, junk)
         IN IF pixels = NULL THEN NULL
            ELSE [kind |-> "bmp24",
                  header |-> ZeroHeader,
                  header_info |-> ZeroHeaderInfo,
                  width |-> width,
                  height |-> height,
                  colorDepth |-> colorDepth,
                  data |-> pixels.rows]

\* the heap events of bmp24_allocate
bmp24_allocateHeap(width, height, allocFail) ==
    IF width <= 0 \/ height <= 0 THEN <<>>
    ELSE IF allocFail = 1 THEN <<>>
    ELSE <<Malloc("img", 0)>>
           \o bmp24_allocateDataPixelsHeap("data", width, height,
                                           IF allocFail = 0 THEN 0 ELSE allocFail - 1)
           \o (IF allocFail >= 2 /\ allocFail <= 2 + height THEN <<Free("img", 0)>> ELSE <<>>)

(***************************************************************************)
(* file_rawRead of one element of `size` bytes at `position` into a field  *)
(* that was never initialised: a short read leaves the field's old         *)
(* content, which is `junk`.                                               *)
(***************************************************************************)
file_rawRead16(f, position, junk) ==
    IF position + 2 <= Len(f) THEN U16At(f, position) ELSE junk

file_rawRead32(f, position, junk) ==
    IF position + 4 <= Len(f) THEN U32At(f, position) ELSE junk

file_rawReadI32(f, position, junk) ==
    IF position + 4 <= Len(f) THEN I32At(f, position) ELSE junk

(***************************************************************************)
(* bmp24_readPixelData: scanline k of the file (k = 0 first) goes to row   *)
(* height-1-k.  A byte past the end of the file is not read and the        *)
(* buffer keeps what malloc left there.                                    *)
(***************************************************************************)
\* A reader that stores the scanlines in the order they come: the first
\* scanline of the file becomes row 0.
bmp24_readPixelData_topDown(image, f) ==
    LET width == image.width
        height == image.height
        dataOffset == image.header.offset
        row_padded_size == RowPaddedSize(width)
        At(y, x, c) == dataOffset + (y - 1) * row_padded_size + 3 * (x - 1) + c
        Get(y, x, c) ==
            IF dataOffset >= 0 /\ dataOffset < Len(f) /\ At(y, x, c) < Len(f)
            THEN f[At(y, x, c) + 1]
            ELSE PixelByte(image.data[y][x], c)
    IN [image EXCEPT !.data =
          [y \in 1..height |->
             [x \in 1..width |->
                [blue |-> Get(y, x, 0), green |-> Get(y, x, 1), red |-> Get(y, x, 2)]]]]

bmp24_readPixelData(image, f) ==
    LET width == image.width
        height == image.height
        dataOffset == image.header.offset
        row_padded_size == RowPaddedSize(width)
        At(y, x, c) == dataOffset + (height - y) * row_padded_size + 3 * (x - 1) + c
        Get(y, x, c) ==
            IF dataOffset >= 0 /\ dataOffset < Len(f) /\ At(y, x, c) < Len(f)
            THEN f[At(y, x, c) + 1]
            ELSE PixelByte(image.data[y][x], c)
    IN [image EXCEPT !.data =
          [y \in 1..height |->
             [x \in 1..width |->
                [blue |-> Get(y, x, 0), green |-> Get(y, x, 1), red |-> Get(y, x, 2)]]]]

(***************************************************************************)
(* bmp24_loadImage.  env.fopenOk: fopen succeeds; env.allocFail: which     *)
(* malloc of bmp24_allocate fails (0: none); env.junk: the content of      *)
(* uninitialised stack words and heap bytes.                               *)
(***************************************************************************)
\* A check that accepts the 40-byte info header only.
bmp24_infoSizeRejected_exact(size) == size # BMP_INFOHEADER_SIZE

\* if (header_info.size < BMP_INFOHEADER_SIZE), an unsigned comparison
bmp24_infoSizeRejected(size) == size >= 0 /\ size < BMP_INFOHEADER_SIZE

bmp24_loadImage(f, env) ==
    IF ~env.fopenOk THEN [img |-> NULL, opened |-> 0, closed |-> 0, heap |-> <<>>]
    ELSE
      LET header == [type |-> file_rawRead16(f, BITMAP_MAGIC_OFFSET, env.junk),
                     size |-> file_rawRead32(f, BITMAP_SIZE_OFFSET, env.junk),
                     reserved1 |-> env.junk,
                     reserved2 |-> env.junk,
                     offset |-> file_rawRead32(f, BITMAP_OFFSET_OFFSET, env.junk)]
          header_info ==
              [size |-> file_rawRead32(f, BITMAP_INFO_SIZE_OFFSET, env.junk),
               width |-> file_rawReadI32(f, BITMAP_WIDTH_OFFSET, env.junk),
               height |-> file_rawReadI32(f, BITMAP_HEIGHT_OFFSET, env.junk),
               planes |-> file_rawRead16(f, BITMAP_PLANES_OFFSET, env.junk),
               bits |-> file_rawRead16(f, BITMAP_DEPTH_OFFSET, env.junk),
               compression |-> file_rawRead32(f, BITMAP_COMPRESSION_OFFSET, env.junk),
               imagesize |-> file_rawRead32(f, BITMAP_SIZE_RAW_OFFSET, env.junk),
               xresolution |-> env.junk,
               yresolution |-> env.junk,
               ncolors |-> env.junk,
               importantcolors |-> env.junk]
          rejected == [img |-> NULL, opened |-> 1, closed |-> 1, heap |-> <<>>]
      IN IF header.type # BMP_TYPE THEN rejected
         ELSE IF bmp24_infoSizeRejected(header_info.size) THEN rejected
         ELSE IF header_info.bits # 24 THEN rejected
         ELSE IF header_info.compression # 0 THEN rejected
         ELSE LET a == bmp24_allocate(header_info.width, header_info.height,
                                      header_info.bits, env.allocFail, env.junk % 256)
                  events == bmp24_allocateHeap(header_info.width, header_info.height,
                                               env.allocFail)
              IN IF a = NULL THEN [img |-> NULL, opened |-> 1, closed |-> 1, heap |-> events]
                 ELSE [img |-> bmp24_readPixelData(
                                  [a EXCEPT !.header = header,
                                            !.header_info = header_info,
                                            !.width = header_info.width,
                                            !.height = header_info.height,
                                            !.colorDepth = header_info.bits], f),
                       opened |-> 1, closed |-> 1, heap |-> events]

(***************************************************************************)
(* bmp24_writePixelData: the rows go to image.header.offset, bottom row    *)
(* first, each followed by its zero padding.                               *)
(***************************************************************************)
bmp24_writePixelData(image, f) ==
    LET width == image.width
        height == image.height
        dataOffset == image.header.offset
        row_padded_size == RowPaddedSize(width)
        block == [i \in 1..(row_padded_size * height) |->
                    LET k == (i - 1) \div row_padded_size
                        c == (i - 1) % row_padded_size
                    IN IF c < 3 * width
                       THEN PixelByte(image.data[height - k][(c \div 3) + 1], c % 3)
                       ELSE 0]
    IN WriteAt(f, dataOffset, block)

(***************************************************************************)
(* bmp24_saveImage.  fail = "fopen": fopen fails; "none": it succeeds.     *)
(* file_rawWrite reports a failed write and goes on, so the calls that     *)
(* follow are the same in both cases; only successful writes are explored. *)
(***************************************************************************)
bmp24_saveImage(old, image, fail) ==
    IF image = NULL THEN [file |-> old, ok |-> FALSE, opened |-> 0, closed |-> 0]
    ELSE IF fail = "fopen" THEN [file |-> old, ok |-> FALSE, opened |-> 0, closed |-> 0]
    ELSE
      LET width == image.width
          height == image.height
          row_padded_size == RowPaddedSize(width)
          data_size == row_padded_size * height
          file_size == BMP_HEADER_SIZE + BMP_INFOHEADER_SIZE + data_size
          data_offset == BMP_HEADER_SIZE + BMP_INFOHEADER_SIZE
          f1 == WriteAt(<<>>, BITMAP_MAGIC_OFFSET, LE16(BMP_TYPE))
          f2 == WriteAt(f1, BITMAP_SIZE_OFFSET, LE32(file_size))
          f3 == WriteAt(f2, BITMAP_OFFSET_OFFSET, LE32(data_offset))
          f4 == WriteAt(f3, BITMAP_INFO_SIZE_OFFSET, LE32(BMP_INFOHEADER_SIZE))
          f5 == WriteAt(f4, BITMAP_WIDTH_OFFSET, LE32(width))
          f6 == WriteAt(f5, BITMAP_HEIGHT_OFFSET, LE32(height))
          f7 == WriteAt(f6, BITMAP_PLANES_OFFSET, LE16(1))
          f8 == WriteAt(f7, BITMAP_DEPTH_OFFSET, LE16(24))
          f9 == WriteAt(f8, BITMAP_COMPRESSION_OFFSET, LE32(0))
          f10 == WriteAt(f9, BITMAP_SIZE_RAW_OFFSET, LE32(data_size))
          f11 == WriteAt(f10, BITMAP_XRES_OFFSET, LE32(0))
          f12 == WriteAt(f11, BITMAP_YRES_OFFSET, LE32(0))
          f13 == WriteAt(f12, BITMAP_NCOLORS_OFFSET, LE32(0))
          f14 == WriteAt(f13, BITMAP_IMPORTANTCOLORS_OFFSET, LE32(0))
      IN [file |-> bmp24_writePixelData(image, f14), ok |-> TRUE,
          opened |-> 1, closed |-> 1]

(***************************************************************************)
(* int addition a + b of an unsigned char a and an int b.  When the sum    *)
(* does not fit in an int the behaviour is undefined; ub chooses what the  *)
(* build does: "wrap" (two's complement wrap-around) or "asif" (the        *)
(* compiler assumes no overflow and the later comparison with 255 sees a   *)
(* large positive value, represented by INT_MAX).                          *)
(***************************************************************************)
IntAddOverflows(a, b) == b > INT_MAX - a

IntAdd(a, b, ub) ==
    IF ~IntAddOverflows(a, b) THEN a + b
    ELSE IF ub = "wrap" THEN (((b - INT_MAX) - 1) + a) + INT_MIN
    ELSE INT_MAX

\* a - b on int, with the same two outcomes when it overflows (b >= 0)
IntSub(a, b, ub) ==
    IF a >= INT_MIN + b THEN a - b
    ELSE IF ub = "wrap" THEN ((a - INT_MIN) + (INT_MAX - b)) + 1
    ELSE INT_MIN

(***************************************************************************)
(* int row_padded_size = (width * 3 + 3) & (~3) and                        *)
(* int padding = row_padded_size - (width * 3), in int arithmetic, for a   *)
(* width whose triple is an int.  & (~3) clears the two low bits of the    *)
(* two's complement value, which takes a negative value down to the        *)
(* multiple of 4 below it.  The result tells whether an addition or        *)
(* subtraction overflowed.                                                 *)
(***************************************************************************)
row_padded_size(width, ub) ==
    LET sum == IntAdd(width * 3, 3, ub)
    IN sum - (sum % 4)

\* bmp24_readPixelData: the bytes skipped after each row
bmp24_readPadding(width, ub) ==
    LET padding == IntSub(row_padded_size(width, ub), width * 3, ub)
    IN [row_padded_size |-> row_padded_size(width, ub),
        padding |-> padding,
        ub |-> IntAddOverflows(width * 3, 3),
        moved |-> IF padding > 0 THEN padding ELSE 0]

\* bmp24_writePixelData: the bytes taken from pad_bytes[3] after each row
bmp24_writePadding(width, ub) ==
    LET padding == IntSub(row_padded_size(width, ub), width * 3, ub)
    IN [row_padded_size |-> row_padded_size(width, ub),
        padding |-> padding,
        ub |-> IntAddOverflows(width * 3, 3),
        moved |-> IF padding > 0 THEN padding ELSE 0]

\* bmp24_saveImage: the row size behind data_size
bmp24_saveRowSize(width, ub) ==
    [row_padded_size |-> row_padded_size(width, ub),
     padding |-> 0,
     ub |-> IntAddOverflows(width * 3, 3),
     moved |-> 0]

\* if (newValue > 255) newValue = 255; if (newValue < 0) newValue = 0;
Clamp255(newValue) == IF newValue > 255 THEN 255 ELSE IF newValue < 0 THEN 0 ELSE newValue

(***************************************************************************)
(* Point transforms of the 8-bit image: every loop runs over dataSize      *)
(* bytes.                                                                  *)
(***************************************************************************)
\* A negation in two's complement: v becomes (256 - v) mod 256.
bmp8_negative_twosComplement(image) ==
    IF Absent(image) THEN image
    ELSE [image EXCEPT !.data = [i \in 1..image.dataSize |-> (256 - image.data[i]) % 256]]

bmp8_negative(image) ==
    IF Absent(image) THEN image
    ELSE [image EXCEPT !.data = [i \in 1..image.dataSize |-> 255 - image.data[i]]]

bmp8_brightness(image, value, ub) ==
    IF Absent(image) THEN image
    ELSE [image EXCEPT !.data =
            [i \in 1..image.dataSize |-> Clamp255(IntAdd(image.data[i], value, ub))]]

\* A threshold with its two outputs exchanged.
bmp8_threshold_inverted(image, threshold) ==
    IF Absent(image) THEN image
    ELSE [image EXCEPT !.data =
            [i \in 1..image.dataSize |-> IF image.data[i] >= threshold THEN 0 ELSE 255]]

bmp8_threshold(image, threshold) ==
    IF Absent(image) THEN image
    ELSE [image EXCEPT !.data =
            [i \in 1..image.dataSize |-> IF image.data[i] >= threshold THEN 255 ELSE 0]]

(***************************************************************************)
(* Kernels: float weights w[r][c] / den with den a power of two or 1, so   *)
(* that every product and partial sum is exact in float arithmetic.        *)
(***************************************************************************)
GaussianBlurKernel ==
    [size |-> 3, den |-> 16, w |-> <<<<1, 2, 1>>, <<2, 4, 2>>, <<1, 2, 1>>>>]

SharpenKernel ==
    [size |-> 3, den |-> 1, w |-> <<<<0, -1, 0>>, <<-1, 5, -1>>, <<0, -1, 0>>>>]

\* A 5x5 kernel (kernelSize = 5, n = 2): uniform weights 1/32.
Uniform5Kernel ==
    [size |-> 5, den |-> 32, w |-> [r \in 1..5 |-> [c \in 1..5 |-> 1]]]

Kernels == {GaussianBlurKernel, SharpenKernel, Uniform5Kernel}

\* the other kernels of the filter menu: weights 1/9, outline, emboss
BoxBlurKernel ==
    [size |-> 3, den |-> 9, w |-> <<<<1, 1, 1>>, <<1, 1, 1>>, <<1, 1, 1>>>>]

OutlineKernel ==
    [size |-> 3, den |-> 1, w |-> <<<<-1, -1, -1>>, <<-1, 8, -1>>, <<-1, -1, -1>>>>]

EmbossKernel ==
    [size |-> 3, den |-> 1, w |-> <<<<-2, -1, 0>>, <<-1, 1, 1>>, <<0, 1, 2>>>>]

\* The sum of the first n terms of the sequence t.
RECURSIVE SumSeq(_, _)
SumSeq(t, n) == IF n = 0 THEN 0 ELSE t[n] + SumSeq(t, n - 1)

\* (int)sum of the float sum num/den: truncation toward zero.
TruncDiv(num, den) == IF num >= 0 THEN num \div den ELSE -((-num) \div den)

(***************************************************************************)
(* bmp8_applyFilter.  The loops run over 1 <= y < height-1 and             *)
(* 1 <= x < width-1 whatever the kernel size (width, height >= 1 in the    *)
(* explored images, so the unsigned height-1 and width-1 do not wrap).     *)
(* The index pixelY * width + pixelX is computed in unsigned arithmetic:   *)
(* a mathematically negative value wraps to an index far beyond the        *)
(* buffer.  A read outside tempData (dataSize bytes) is undefined and      *)
(* yields junk; a write outside img->data is undefined and is left out of  *)
(* the image.  The result records in ub whether either happened.           *)
(***************************************************************************)
bmp8_applyFilter(image, kernel, mallocOk, junk) ==
    IF Absent(image) \/ kernel = NULL THEN [img |-> image, ub |-> FALSE]
    ELSE IF kernel.size % 2 = 0 THEN [img |-> image, ub |-> FALSE]
    ELSE IF ~mallocOk THEN [img |-> image, ub |-> FALSE]
    ELSE
      LET n == kernel.size \div 2
          width == image.width
          height == image.height
          tempData == image.data
          InBuf(idx) == idx >= 0 /\ idx < image.dataSize
          Read(idx) == IF InBuf(idx) THEN tempData[idx + 1] ELSE junk
          Offs == {<<ky, kx>> : ky \in (-n)..n, kx \in (-n)..n}
          \* the j-th term of the double loop over ky, kx (j = 1 first)
          Ky(j) == ((j - 1) \div kernel.size) - n
          Kx(j) == ((j - 1) % kernel.size) - n
          Term(y, x, j) ==
              Read((y + Ky(j)) * width + (x + Kx(j))) * kernel.w[Ky(j) + n + 1][Kx(j) + n + 1]
          Sum(y, x) ==
              SumSeq([j \in 1..(kernel.size * kernel.size) |-> Term(y, x, j)],
                     kernel.size * kernel.size)
          Visited == {<<y, x>> : y \in 1..(height - 2), x \in 1..(width - 2)}
          Result(y, x) == Clamp255(TruncDiv(Sum(y, x), kernel.den))
          badRead == \E p \in Visited : \E o \in Offs :
                        ~InBuf((p[1] + o[1]) * width + (p[2] + o[2]))
          badWrite == \E p \in Visited : ~InBuf(p[1] * width + p[2])
      IN [img |-> [image EXCEPT !.data =
                     [i \in 1..image.dataSize |->
                        IF <<(i - 1) \div width, (i - 1) % width>> \in Visited
                        THEN Result((i - 1) \div width, (i - 1) % width)
                        ELSE image.data[i]]],
          ub |-> badRead \/ badWrite]

\* the heap events of bmp8_applyFilter: tempData is freed after the loops
bmp8_applyFilterHeap(image, kernel, mallocOk) ==
    IF Absent(image) \/ kernel = NULL THEN <<>>
    ELSE IF kernel.size % 2 = 0 THEN <<>>
    ELSE IF ~mallocOk THEN <<>>
    ELSE <<Malloc("tempData", 0), Free("tempData", 0)>>

(***************************************************************************)
(* Histogram equalization of the 8-bit image.  A table of 256 unsigned     *)
(* ints is a sequence t with t[v + 1] the entry of intensity v.            *)
(***************************************************************************)
Intensities == 0..255

\* hist[data[i]]++ for i = lo..hi, on the table hist; a long range is
\* counted in two parts, the first part's table being complete before the
\* second part starts
RECURSIVE CountRange(_, _, _, _)
CountRange(hist, data, lo, hi) ==
    IF lo > hi THEN hist
    ELSE IF hi - lo < 16
      THEN LET h == CountRange(hist, data, lo, hi - 1)
           IN [h EXCEPT ![data[hi] + 1] = @ + 1]
    ELSE LET mid == (lo + hi) \div 2
         IN CHOOSE h \in {CountRange(first, data, mid + 1, hi) :
                             first \in {CountRange(hist, data, lo, mid)}} : TRUE

\* calloc(256, ...) then histogram[img->data[i]]++ over dataSize bytes
bmp8_computeHistogram(image) ==
    CountRange([k \in 1..256 |-> 0], image.data, 1, image.dataSize)

\* A cdf loop that copies the histogram and never accumulates it.
CumulativeSum_copy(hist, lo, hi) == [i \in 1..(hi - lo + 1) |-> hist[lo + i - 1]]

\* cdf[0] = hist[0]; cdf[i] = cdf[i - 1] + hist[i]: the running sums of
\* hist[lo..hi], four entries at a time and longer ranges by halves
RECURSIVE CumulativeSum(_, _, _)
CumulativeSum(hist, lo, hi) ==
    IF lo = hi THEN <<hist[lo]>>
    ELSE IF hi - lo = 3
      THEN LET c0 == hist[lo]
               c1 == c0 + hist[lo + 1]
               c2 == c1 + hist[lo + 2]
           IN <<c0, c1, c2, c2 + hist[hi]>>
    ELSE LET mid == (lo + hi) \div 2
             left == CumulativeSum(hist, lo, mid)
             right == CumulativeSum(hist, mid + 1, hi)
             carry == left[mid - lo + 1]
         IN left \o [i \in 1..(hi - mid) |-> right[i] + carry]

\* the first non-zero cdf entry, 0 when there is none
FirstNonZero(cdf) ==
    IF \A k \in 1..256 : cdf[k] = 0 THEN 0
    ELSE cdf[CHOOSE k \in 1..256 : cdf[k] > 0 /\ \A j \in 1..(k - 1) : cdf[j] = 0]

\* A degenerate table that maps every intensity to 0.
bmp8_identityTable_zero == [k \in 1..256 |-> 0]

\* for (i = 0; i < 256; i++) cdf[i] = i
bmp8_identityTable == [k \in 1..256 |-> k - 1]

(***************************************************************************)
(* round(((double)c) * (255.0 / den)) followed by the clamp to 255, for    *)
(* c = cdf[i] - cdf_min >= 0 and den = numPixels - cdf_min as unsigned     *)
(* ints.  wrapped: numPixels < cdf_min, where den is 2^32 + numPixels -    *)
(* cdf_min and the product is below 0.5.  Otherwise the result is the      *)
(* rounding to nearest (half up) of 255*c/den: the double product gives    *)
(* exactly that for every den below 50, which covers the images explored.  *)
(***************************************************************************)
ScaleRound(c, den, wrapped) ==
    IF wrapped THEN 0
    ELSE Min(255, (510 * c + den) \div (2 * den))

(***************************************************************************)
(* bmp8_computeCDF(hist, numPixels).  allocFail: 0 none, 2 the calloc of   *)
(* cdf, 3 the malloc of hist_eq.  Returns NULL or the table.               *)
(***************************************************************************)
bmp8_computeCDF(hist, numPixels, allocFail) ==
    IF hist = NULL \/ numPixels = 0 THEN NULL
    ELSE IF allocFail = 2 THEN NULL
    ELSE
      LET cdf == CumulativeSum(hist, 1, 256)
          cdf_min == FirstNonZero(cdf)
      IN IF numPixels - cdf_min = 0 THEN bmp8_identityTable
         ELSE IF allocFail = 3 THEN NULL
         ELSE [k \in 1..256 |->
                 IF cdf[k] = 0 THEN 0
                 ELSE ScaleRound(cdf[k] - cdf_min,
                                 IF numPixels < cdf_min THEN 1 ELSE numPixels - cdf_min,
                                 numPixels < cdf_min)]

\* the heap events of bmp8_computeCDF and the block it returns: cdf itself
\* on the degenerate path, hist_eq otherwise
bmp8_computeCDFHeap(hist, numPixels, allocFail) ==
    IF hist = NULL \/ numPixels = 0 THEN [events |-> <<>>, result |-> "NULL"]
    ELSE IF allocFail = 2 THEN [events |-> <<>>, result |-> "NULL"]
    ELSE IF numPixels - FirstNonZero(CumulativeSum(hist, 1, 256)) = 0
      THEN [events |-> <<Malloc("cdf", 0)>>, result |-> "cdf"]
    ELSE IF allocFail = 3
      THEN [events |-> <<Malloc("cdf", 0), Free("cdf", 0)>>, result |-> "NULL"]
    ELSE [events |-> <<Malloc("cdf", 0), Malloc("hist_eq", 0), Free("cdf", 0)>>,
          result |-> "hist_eq"]

(***************************************************************************)
(* bmp8_equalize.  allocFail = 1: the calloc of the histogram fails.       *)
(***************************************************************************)
bmp8_equalize(image, allocFail) ==
    IF Absent(image) THEN image
    ELSE
      LET numPixels == image.width * image.height
      IN IF numPixels = 0 THEN image
         ELSE IF allocFail = 1 THEN image
         ELSE
           LET hist == bmp8_computeHistogram(image)
               hist_eq == bmp8_computeCDF(hist, numPixels, allocFail)
           IN IF hist_eq = NULL THEN image
              ELSE [image EXCEPT !.data =
                      [i \in 1..image.dataSize |-> hist_eq[image.data[i] + 1] % 256]]

\* the heap events of bmp8_equalize
bmp8_equalizeHeap(image, allocFail) ==
    IF Absent(image) THEN <<>>
    ELSE IF image.width * image.height = 0 THEN <<>>
    ELSE IF allocFail = 1 THEN <<>>
    ELSE
      LET c == bmp8_computeCDFHeap(bmp8_computeHistogram(image),
                                   image.width * image.height, allocFail)
      IN <<Malloc("hist", 0)>> \o c.events
           \o (IF c.result = "NULL" THEN <<Free("hist", 0)>>
               ELSE <<Free("hist", 0), Free(c.result, 0)>>)

(***************************************************************************)
(* Point transforms of the 24-bit image.                                   *)
(***************************************************************************)
MapPixels(image, F(_)) ==
    [image EXCEPT !.data =
       [y \in 1..image.height |-> [x \in 1..image.width |-> F(image.data[y][x])]]]

\* A negative that tests the image pointer only: with a NULL pixel buffer
\* it goes on to the first row and faults.
bmp24_negative_noDataCheck(image) ==
    IF image.kind = "NULL" THEN image
    ELSE IF image.kind = "bmp24_nodata" THEN [kind |-> "fault"]
    ELSE LET F(p) == [blue |-> 255 - p.blue, green |-> 255 - p.green, red |-> 255 - p.red]
         IN MapPixels(image, F)

bmp24_negative(image) ==
    IF Absent(image) THEN image
    ELSE LET F(p) == [blue |-> 255 - p.blue, green |-> 255 - p.green, red |-> 255 - p.red]
         IN MapPixels(image, F)

\* A grayscale whose sum R+G+B is kept in 8 bits before the division.
bmp24_grayscale_wrap(image) ==
    IF Absent(image) THEN image
    ELSE LET F(p) == LET gray == ((p.red + p.green + p.blue) % 256) \div 3
                     IN [blue |-> gray, green |-> gray, red |-> gray]
         IN MapPixels(image, F)

\* A grayscale that also records the image as an 8-bit one.
bmp24_grayscale_depth8(image) ==
    IF Absent(image) THEN image
    ELSE LET F(p) == LET gray == ((p.red + p.green + p.blue) \div 3) % 256
                     IN [blue |-> gray, green |-> gray, red |-> gray]
         IN [MapPixels(image, F) EXCEPT !.colorDepth = 8]

bmp24_grayscale(image) ==
    IF Absent(image) THEN image
    ELSE LET F(p) == LET gray == ((p.red + p.green + p.blue) \div 3) % 256
                     IN [blue |-> gray, green |-> gray, red |-> gray]
         IN MapPixels(image, F)

bmp24_brightness(image, value, ub) ==
    IF Absent(image) THEN image
    ELSE LET F(p) == [blue |-> Clamp255(IntAdd(p.blue, value, ub)),
                      green |-> Clamp255(IntAdd(p.green, value, ub)),
                      red |-> Clamp255(IntAdd(p.red, value, ub))]
         IN MapPixels(image, F)

(***************************************************************************)
(* clamp_uint8 of the float num/den: above 255 gives 255, below 0 gives 0, *)
(* otherwise round() (half away from zero; the value is non-negative).     *)
(***************************************************************************)
clamp_uint8(num, den) ==
    IF num > 255 * den THEN 255
    ELSE IF num < 0 THEN 0
    ELSE (2 * num + den) \div (2 * den)

(***************************************************************************)
(* bmp24_applyFilter: allocFail is the outcome of bmp24_allocateDataPixels *)
(* for the temporary copy (0: success).                                    *)
(***************************************************************************)
\* A filter without the temporary copy: the pixels are visited row by row
\* and each window is read from the buffer that is being written.
RECURSIVE FilterInPlace24(_, _, _, _, _)
FilterInPlace24(data, kernel, width, height, k) ==
    LET n == kernel.size \div 2
        innerWidth == width - 2 * n
        y == n + ((k - 1) \div innerWidth)
        x == n + ((k - 1) % innerWidth)
        Sum(c) ==
            SumSeq([j \in 1..(kernel.size * kernel.size) |->
                      PixelByte(data[y + ((j - 1) \div kernel.size) - n + 1]
                                    [x + ((j - 1) % kernel.size) - n + 1], c)
                        * kernel.w[((j - 1) \div kernel.size) + 1]
                                  [((j - 1) % kernel.size) + 1]],
                   kernel.size * kernel.size)
    IN IF innerWidth <= 0 \/ height - 2 * n <= 0 \/ k > innerWidth * (height - 2 * n)
       THEN data
       ELSE FilterInPlace24(
              [data EXCEPT ![y + 1][x + 1] =
                 [blue |-> clamp_uint8(Sum(0), kernel.den),
                  green |-> clamp_uint8(Sum(1), kernel.den),
                  red |-> clamp_uint8(Sum(2), kernel.den)]],
              kernel, width, height, k + 1)

bmp24_applyFilter_inPlace(image, kernel, allocFail) ==
    IF Absent(image) \/ kernel = NULL THEN image
    ELSE IF kernel.size % 2 = 0 THEN image
    ELSE IF bmp24_allocateDataPixels(image.width, image.height, allocFail, 0) = NULL
      THEN image
    ELSE [image EXCEPT !.data =
            FilterInPlace24(image.data, kernel, image.width, image.height, 1)]

bmp24_applyFilter(image, kernel, allocFail) ==
    IF Absent(image) \/ kernel = NULL THEN image
    ELSE IF kernel.size % 2 = 0 THEN image
    ELSE IF bmp24_allocateDataPixels(image.width, image.height, allocFail, 0) = NULL
      THEN image
    ELSE
      LET n == kernel.size \div 2
          width == image.width
          height == image.height
          tempData == image.data
          Ky(j) == ((j - 1) \div kernel.size) - n
          Kx(j) == ((j - 1) % kernel.size) - n
          Sum(y, x, c) ==
              SumSeq([j \in 1..(kernel.size * kernel.size) |->
                        PixelByte(tempData[y + Ky(j) + 1][x + Kx(j) + 1], c)
                          * kernel.w[Ky(j) + n + 1][Kx(j) + n + 1]],
                     kernel.size * kernel.size)
          Inner(y, x) == y >= n /\ y < height - n /\ x >= n /\ x < width - n
      IN [image EXCEPT !.data =
            [r \in 1..height |->
               [q \in 1..width |->
                  IF Inner(r - 1, q - 1)
                  THEN [blue |-> clamp_uint8(Sum(r - 1, q - 1, 0), kernel.den),
                        green |-> clamp_uint8(Sum(r - 1, q - 1, 1), kernel.den),
                        red |-> clamp_uint8(Sum(r - 1, q - 1, 2), kernel.den)]
                  ELSE image.data[r][q]]]]

\* the heap events of bmp24_applyFilter
bmp24_applyFilterHeap(image, kernel, allocFail) ==
    IF Absent(image) \/ kernel = NULL THEN <<>>
    ELSE IF kernel.size % 2 = 0 THEN <<>>
    ELSE IF bmp24_allocateDataPixels(image.width, image.height, allocFail, 0) = NULL
      THEN bmp24_allocateDataPixelsHeap("tempData", image.width, image.height, allocFail)
    ELSE bmp24_allocateDataPixelsHeap("tempData", image.width, image.height, allocFail)
           \o bmp24_freeDataPixelsHeap("tempData", image.height)

(***************************************************************************)
(* rgb_to_yuv and yuv_to_rgb in exact decimal arithmetic.  U and V are     *)
(* kept as the integers 10^5 * u and 10^5 * v.  clamp_uint8 takes a float: *)
(* the double it is given is first rounded to the nearest float, so a      *)
(* value that lies less than half a float quantum below k + 0.5 becomes    *)
(* k + 0.5 and rounds up.                                                  *)
(***************************************************************************)
\* clamp_uint8(yuv.y) with y = 0.299 r + 0.587 g + 0.114 b
LumaIndex(p) == (299 * p.red + 587 * p.green + 114 * p.blue + 500) \div 1000

ChromaU(p) == 43600 * p.blue - 14713 * p.red - 28886 * p.green

ChromaV(p) == 61500 * p.red - 51499 * p.green - 10001 * p.blue

\* half the distance between neighbouring floats just below n + 0.5, in
\* units of 10^-10, rounded down
HalfQuantum(n) ==
    IF n = 0 THEN 149 ELSE IF n < 2 THEN 596 ELSE IF n < 4 THEN 1192
    ELSE IF n < 8 THEN 2384 ELSE IF n < 16 THEN 4768 ELSE IF n < 32 THEN 9536
    ELSE IF n < 64 THEN 19073 ELSE IF n < 128 THEN 38146 ELSE 76293

\* clamp_uint8 of the value y + (hi * 10^4 + lo) / 10^10
ClampScaled(y, hi, lo) ==
    LET hi2 == hi + (lo \div 10000)
        lo2 == lo % 10000
        n == y + (hi2 \div 1000000)
        frac == hi2 % 1000000
        up == \/ frac >= 500000
              \/ /\ 500000 - frac <= 10
                 /\ (500000 - frac) * 10000 - lo2 <= HalfQuantum(n)
    IN IF n < 0 THEN 0 ELSE Min(255, n + (IF up THEN 1 ELSE 0))

\* r = y + 1.13983 v; g = y - 0.39465 u - 0.58060 v; b = y + 2.03211 u
yuv_to_rgb(y, u, v) ==
    [red |-> ClampScaled(y, 113983 * (v \div 10000), 113983 * (v % 10000)),
     green |-> ClampScaled(y, -39465 * (u \div 10000) - 58060 * (v \div 10000),
                              -39465 * (u % 10000) - 58060 * (v % 10000)),
     blue |-> ClampScaled(y, 203211 * (u \div 10000), 203211 * (u % 10000))]

(***************************************************************************)
(* bmp24_equalize.  fail names the allocation that fails ("none",          *)
(* "buffers": yuv_data or y_hist, "row": a row of yuv_data, "table": an    *)
(* allocation inside bmp8_computeCDF).  The call bmp8_computeCDF(y_hist)   *)
(* passes one argument to a function of two: the callee's numPixels is     *)
(* whatever the argument register holds, given here as numPixelsSeen.      *)
(***************************************************************************)
\* clamp_uint8(yuv_data[y][x].y) of every pixel, row after row
LumaValues(image) ==
    [i \in 1..(image.width * image.height) |->
       LumaIndex(image.data[((i - 1) \div image.width) + 1][((i - 1) % image.width) + 1])]

\* calloc(256, ...) then y_hist[y_val]++ for every pixel
bmp24_lumaHistogram(image) ==
    CountRange([k \in 1..256 |-> 0], LumaValues(image), 1, image.width * image.height)

bmp24_equalizeTable(image, fail, numPixelsSeen) ==
    bmp8_computeCDF(bmp24_lumaHistogram(image), numPixelsSeen,
                    IF fail = "table" THEN 2 ELSE IF fail = "remap" THEN 3 ELSE 0)

bmp24_equalize(image, fail, numPixelsSeen) ==
    IF Absent(image) THEN [img |-> image, done |-> FALSE]
    ELSE IF image.width * image.height = 0 THEN [img |-> image, done |-> FALSE]
    ELSE IF fail \in {"buffers", "row"} THEN [img |-> image, done |-> FALSE]
    ELSE
      LET hist_eq == bmp24_equalizeTable(image, fail, numPixelsSeen)
          F(p) == yuv_to_rgb(hist_eq[LumaIndex(p) + 1], ChromaU(p), ChromaV(p))
      IN IF hist_eq = NULL THEN [img |-> image, done |-> FALSE]
         ELSE [img |-> MapPixels(image, F), done |-> TRUE]

(***************************************************************************)
(* The heap events of bmp24_equalize.  which tells the failing allocation  *)
(* within the class: for "buffers" 1 is yuv_data, 2 is y_hist and 3 both;  *)
(* for "row" it is the number of the failing row.                          *)
(***************************************************************************)
bmp24_equalizeHeap(image, fail, numPixelsSeen, which) ==
    IF Absent(image) THEN <<>>
    ELSE IF image.width * image.height = 0 THEN <<>>
    ELSE IF fail = "buffers"
      THEN IF which = 1 THEN <<Malloc("y_hist", 0), Free("y_hist", 0)>>
           ELSE IF which = 2 THEN <<Malloc("yuv_data", 0), Free("yuv_data", 0)>>
           ELSE <<>>
    ELSE IF fail = "row"
      THEN <<Malloc("yuv_data", 0), Malloc("y_hist", 0)>>
             \o MallocRows("yuv_data", Min(which, image.height) - 1)
             \o FreeRows("yuv_data", Min(which, image.height) - 1)
             \o <<Free("yuv_data", 0), Free("y_hist", 0)>>
    ELSE
      LET c == bmp8_computeCDFHeap(bmp24_lumaHistogram(image), numPixelsSeen,
                                   IF fail = "table" THEN 2
                                   ELSE IF fail = "remap" THEN 3 ELSE 0)
      IN <<Malloc("yuv_data", 0), Malloc("y_hist", 0)>>
           \o MallocRows("yuv_data", image.height)
           \o c.events
           \o <<Free("y_hist", 0)>>
           \o (IF c.result = "NULL" THEN <<>> ELSE <<Free(c.result, 0)>>)
           \o FreeRows("yuv_data", image.height)
           \o <<Free("yuv_data", 0)>>

(***************************************************************************)
(* check_bmp_type: "BMP8", "BMP24" or "NONE".                              *)
(***************************************************************************)
\* A check that looks at the depth field only and never tests the magic.
check_bmp_type_depthOnly(f, fopenOk) ==
    IF ~fopenOk THEN [type |-> "NONE", opened |-> 0, closed |-> 0]
    ELSE IF Len(f) < BITMAP_DEPTH_OFFSET + 2
      THEN [type |-> "NONE", opened |-> 1, closed |-> 1]
    ELSE LET depth == U16At(f, BITMAP_DEPTH_OFFSET)
         IN [type |-> IF depth = 8 THEN "BMP8" ELSE IF depth = 24 THEN "BMP24" ELSE "NONE",
             opened |-> 1, closed |-> 1]

check_bmp_type(f, fopenOk) ==
    IF ~fopenOk THEN [type |-> "NONE", opened |-> 0, closed |-> 0]
    ELSE IF Len(f) < 2 \/ U16At(f, 0) # BMP_TYPE
      THEN [type |-> "NONE", opened |-> 1, closed |-> 1]
    ELSE IF Len(f) < BITMAP_DEPTH_OFFSET + 2
      THEN [type |-> "NONE", opened |-> 1, closed |-> 1]
    ELSE LET depth == U16At(f, BITMAP_DEPTH_OFFSET)
         IN [type |-> IF depth = 8 THEN "BMP8" ELSE IF depth = 24 THEN "BMP24" ELSE "NONE",
             opened |-> 1, closed |-> 1]

(***************************************************************************)
(* The files the program is run on.  Sample is the value of channel c of   *)
(* the pixel in column x of row y (row 0 is the top row) under pattern     *)
(* pat; the rows are stored bottom-up with zero padding.                   *)
(***************************************************************************)
Sample(pat, x, y, c) ==
    IF pat = 0 THEN 10 ELSE (pat * 101 + x * 37 + y * 59 + c * 83) % 256

Header54(magic, fileSize, dataOffset, infoSize, w, h, bits, comp, imagesize, ncolors) ==
    LE16(magic) \o LE32(fileSize) \o Zeros(4) \o LE32(dataOffset) \o LE32(infoSize)
      \o LE32(w) \o LE32(h) \o LE16(1) \o LE16(bits) \o LE32(comp) \o LE32(imagesize)
      \o LE32(2835) \o LE32(2835) \o LE32(ncolors) \o LE32(0)

GrayPalette ==
    [i \in 1..BMP8_COLORTABLE_SIZE |-> IF (i - 1) % 4 = 3 THEN 0 ELSE (i - 1) \div 4]

\* layout: "padded" (rows padded to 4 bytes, image size field = padded size),
\* "raw" (rows not padded, image size field = w*h), "zero" (rows padded,
\* image size field 0, as BMP allows for uncompressed images).
Bmp8File(w, h, layout, pat) ==
    LET stride == IF layout = "raw" THEN w ELSE (w + 3) - ((w + 3) % 4)
        imagesize == IF layout = "zero" THEN 0 ELSE stride * h
        rows == [i \in 1..(stride * h) |->
                   IF (i - 1) % stride < w
                   THEN Sample(pat, (i - 1) % stride, h - 1 - ((i - 1) \div stride), 0)
                   ELSE 0]
    IN Header54(BMP_TYPE, 1078 + stride * h, 1078, 40, w, h, 8, 0, imagesize, 256)
         \o GrayPalette \o rows

Bmp24File(magic, w, h, infoSize, bits, comp, pat) ==
    LET padded == IF w > 0 THEN RowPaddedSize(w) ELSE 0
        nrows == IF h > 0 THEN h ELSE 0
        dataOffset == BMP_HEADER_SIZE + Max(infoSize, BMP_INFOHEADER_SIZE)
        rows == [i \in 1..(padded * nrows) |->
                   IF (i - 1) % padded < 3 * w
                   THEN Sample(pat, ((i - 1) % padded) \div 3,
                               h - 1 - ((i - 1) \div padded), ((i - 1) % padded) % 3)
                   ELSE 0]
    IN Header54(magic, dataOffset + padded * nrows, dataOffset, infoSize, w, h, bits, comp,
                padded * nrows, 0)
         \o Zeros(dataOffset - 54) \o rows

Dims == {<<3, 3>>, <<4, 3>>, <<MaxWidth, MaxHeight>>}

Patterns == 1..NumPatterns

Cut(f, n) == SubSeq(f, 1, Min(Len(f), n))

GoodFiles8 ==
    {Bmp8File(d[1], d[2], l, p) : d \in Dims, l \in {"padded", "raw"}, p \in Patterns}
      \cup {Bmp8File(3, 3, "zero", 1)}
      \cup {Bmp8File(2, 2, "raw", 0), Bmp8File(4, 2, "padded", 0)}

\* info headers of 40 bytes (BITMAPINFOHEADER) and of 124 bytes (BITMAPV5HEADER)
GoodFiles24 ==
    {Bmp24File(BMP_TYPE, d[1], d[2], BMP_INFOHEADER_SIZE, 24, 0, p) : d \in Dims, p \in Patterns}
      \cup {Bmp24File(BMP_TYPE, 3, 3, 124, 24, 0, 1)}

\* files that end too early: inside the header, inside the colour table,
\* inside the pixel data
ShortFiles8 ==
    {Cut(Bmp8File(3, 3, "padded", 1), n) : n \in {30, 500, 1078 + 12 - 2}}

ShortFiles24 ==
    {Cut(Bmp24File(BMP_TYPE, 3, 3, 40, 24, 0, 1), n) : n \in {29, 30, 54 + 36 - 5}}
      \cup {Cut(Bmp24File(BMP_TYPE, 4, 3, 124, 24, 0, 1), 138 + 36 - 13)}

BadFiles ==
    {Bmp24File(16973, 3, 3, 40, 24, 0, 1),
     Bmp24File(BMP_TYPE, 3, 3, 12, 24, 0, 1),
     Bmp24File(BMP_TYPE, 3, 3, 40, 32, 0, 1),
     Bmp24File(BMP_TYPE, 3, 3, 40, 24, 1, 1),
     Bmp24File(BMP_TYPE, 0, 3, 40, 24, 0, 1),
     Bmp24File(BMP_TYPE, 3, -3, 40, 24, 0, 1),
     <<>>}

InputFiles == GoodFiles8 \cup GoodFiles24 \cup ShortFiles8 \cup ShortFiles24 \cup BadFiles

(***************************************************************************)
(* The environment of a call: which fopen / malloc fails, what junk        *)
(* uninitialised memory holds, what an overflowing int addition does.      *)
(***************************************************************************)
Env8 ==
    {e \in [fopenOk : BOOLEAN, mallocImgOk : BOOLEAN, mallocDataOk : BOOLEAN] :
        (~e.fopenOk => e.mallocImgOk /\ e.mallocDataOk)
        /\ (~e.mallocImgOk => e.mallocDataOk)}

Junk == {0, 170}

Env24 ==
    {e \in [fopenOk : BOOLEAN, allocFail : 0..3, junk : Junk] :
        ~e.fopenOk => (e.allocFail = 0 /\ e.junk = 0)}

SaveFails8 == {"none", "fopen", "header", "table", "data"}

SaveFails24 == {"none", "fopen"}

Deltas == {-40, 100, INT_MAX, INT_MIN}

Overflows == {"wrap", "asif"}

Thresholds == {-5, 128, 300}

EqualizeFails24 == {"none", "buffers", "row", "table"}

\* what bmp8_computeCDF may find in its numPixels parameter when called
\* from bmp24_equalize: a stale value, or the right one by accident
NumPixelsSeen(image) == {7, image.width * image.height}

\* the transform entry points and the arguments they are called with on an
\* absent image
TransformOps8 ==
    {"bmp8_negative", "bmp8_brightness", "bmp8_threshold", "bmp8_applyFilter",
     "bmp8_equalize"}

TransformOps24 ==
    {"bmp24_negative", "bmp24_grayscale", "bmp24_brightness", "bmp24_applyFilter",
     "bmp24_equalize"}

\* a null t_bmp8 * / t_bmp24 *, or an image of that type without pixel buffer
AbsentCalls ==
    (TransformOps8 \X {NULL, NODATA8}) \cup (TransformOps24 \X {NULL, NODATA24})

(***************************************************************************)
(* The menu loop of main.  A pointer to a loaded image is a record         *)
(* [id, obj]: id numbers the successful loads, obj is the image.  The      *)
(* menu record holds main's variables and, for every id, the codec that    *)
(* loaded it, how many times it was freed and by which menu choice;        *)
(* afterFree tells whether a pointer was used or freed after its free.     *)
(* call describes the last menu choice: the codec function it called, the  *)
(* pointer it passed, what it reported, and the frees and loads it made    *)
(* in their order.                                                         *)
(***************************************************************************)
MenuCall(choice, op, codec, arg, report, events) ==
    [choice |-> choice, op |-> op, codec |-> codec, arg |-> arg, report |-> report,
     events |-> events]

MenuInit ==
    [currentImageType |-> "IMAGE_TYPE_NONE",
     currentImage8 |-> NULL,
     currentImage24 |-> NULL,
     isColor |-> 0,
     status |-> "running",
     loadedBy |-> <<>>,
     freed |-> <<>>,
     freedBy |-> <<>>,
     afterFree |-> FALSE,
     call |-> MenuCall(0, "none", "none", NULL, "", <<>>)]

\* bmp8_free(ptr) / bmp24_free(ptr) on a non-null pointer, made by menu choice by
main_free(m, ptr, by) ==
    [m EXCEPT !.afterFree = @ \/ m.freed[ptr.id] > 0,
              !.freed[ptr.id] = @ + 1,
              !.freedBy[ptr.id] = by]

\* a codec call or a field access through a non-null pointer
main_use(m, ptr) == [m EXCEPT !.afterFree = @ \/ m.freed[ptr.id] > 0]

\* An Open that frees the colour image and forgets the grayscale one.
main_discard_colorOnly(m) ==
    IF m.currentImage24 # NULL
    THEN [main_free(m, m.currentImage24, "open") EXCEPT
            !.currentImage24 = NULL,
            !.call = MenuCall(1, "", "", NULL, "", <<[ev |-> "bmp24_free", id |-> m.currentImage24.id]>>)]
    ELSE [m EXCEPT !.call = MenuCall(1, "", "", NULL, "", <<>>)]

\* An Open that keeps the previous image.
main_discard_keep(m) == [m EXCEPT !.call = MenuCall(1, "", "", NULL, "", <<>>)]

\* case 1, first two lines: free previously loaded images
main_discard(m) ==
    LET m24 == IF m.currentImage24 # NULL
               THEN [main_free(m, m.currentImage24, "open") EXCEPT !.currentImage24 = NULL]
               ELSE m
        m8 == IF m24.currentImage8 # NULL
              THEN [main_free(m24, m24.currentImage8, "open") EXCEPT !.currentImage8 = NULL]
              ELSE m24
        events ==
            (IF m.currentImage24 # NULL
             THEN <<[ev |-> "bmp24_free", id |-> m.currentImage24.id]>> ELSE <<>>)
            \o (IF m.currentImage8 # NULL
                THEN <<[ev |-> "bmp8_free", id |-> m.currentImage8.id]>> ELSE <<>>)
    IN [m8 EXCEPT !.call = MenuCall(1, "", "", NULL, "", events)]

\* case 1: open the file f; the colour codec is tried first
main_open(m, f, env24, env8) ==
    LET d == main_discard(m)
        id == Len(m.freed) + 1
        loaded24 == bmp24_loadImage(f, env24).img
        loaded8 == bmp8_loadImage(f, env8).img
        try24 == <<[ev |-> "bmp24_loadImage", id |-> 0]>>
        try8 == <<[ev |-> "bmp8_loadImage", id |-> 0]>>
    IN IF loaded24 # NULL
       THEN [d EXCEPT !.currentImage24 = [id |-> id, obj |-> loaded24],
                      !.isColor = 1,
                      !.currentImageType = "IMAGE_TYPE_BMP24",
                      !.loadedBy = Append(@, "bmp24"),
                      !.freed = Append(@, 0),
                      !.freedBy = Append(@, "none"),
                      !.call = MenuCall(1, "bmp24_loadImage", "bmp24", NULL, "loaded",
                                        d.call.events \o try24)]
       ELSE IF loaded8 # NULL
       THEN [d EXCEPT !.currentImage8 = [id |-> id, obj |-> loaded8],
                      !.isColor = 0,
                      !.currentImageType = "IMAGE_TYPE_BMP8",
                      !.loadedBy = Append(@, "bmp8"),
                      !.freed = Append(@, 0),
                      !.freedBy = Append(@, "none"),
                      !.call = MenuCall(1, "bmp8_loadImage", "bmp8", NULL, "loaded",
                                        d.call.events \o try24 \o try8)]
       ELSE [d EXCEPT !.call = MenuCall(1, "bmp8_loadImage", "bmp8", NULL, "could not load",
                                        d.call.events \o try24 \o try8)]

\* case 2: save to the file old; gives the menu and the file
main_save(m, old, fail24, fail8) ==
    IF m.isColor = 1 /\ m.currentImage24 # NULL
    THEN [menu |-> [main_use(m, m.currentImage24) EXCEPT
                      !.call = MenuCall(2, "bmp24_saveImage", "bmp24", m.currentImage24,
                                        "saved", <<>>)],
          file |-> bmp24_saveImage(old, m.currentImage24.obj, fail24).file]
    ELSE IF m.isColor = 0 /\ m.currentImage8 # NULL
    THEN [menu |-> [main_use(m, m.currentImage8) EXCEPT
                      !.call = MenuCall(2, "bmp8_saveImage", "bmp8", m.currentImage8,
                                        "saved", <<>>)],
          file |-> bmp8_saveImage(old, m.currentImage8.obj, fail8).file]
    ELSE [menu |-> [m EXCEPT !.call = MenuCall(2, "none", "none", NULL, "no image", <<>>)],
          file |-> old]

\* case 3, the guard: no image loaded for the codec isColor names
main_filterGuard(m) ==
    (m.isColor = 0 /\ m.currentImage8 = NULL) \/ (m.isColor = 1 /\ m.currentImage24 = NULL)

\* the kernel of filter choices 4 to 8
main_kernel(filterChoice) ==
    CASE filterChoice = 4 -> BoxBlurKernel
      [] filterChoice = 5 -> GaussianBlurKernel
      [] filterChoice = 6 -> SharpenKernel
      [] filterChoice = 7 -> OutlineKernel
      [] filterChoice = 8 -> EmbossKernel

\* the codec function of a filter choice
main_filterName(isColor, filterChoice) ==
    IF isColor = 1
    THEN CASE filterChoice = 1 -> "bmp24_negative"
           [] filterChoice = 2 -> "bmp24_brightness"
           [] filterChoice = 3 -> "bmp24_grayscale"
           [] filterChoice = 4 -> "bmp24_boxBlur"
           [] filterChoice = 5 -> "bmp24_gaussianBlur"
           [] filterChoice = 6 -> "bmp24_sharpen"
           [] filterChoice = 7 -> "bmp24_outline"
           [] filterChoice = 8 -> "bmp24_emboss"
    ELSE CASE filterChoice = 1 -> "bmp8_negative"
           [] filterChoice = 2 -> "bmp8_brightness"
           [] filterChoice = 3 -> "bmp8_threshold"
           [] filterChoice \in 4..8 -> "bmp8_applyFilter"

(***************************************************************************)
(* The float sum of nine products with 1.0f/9 can end just below the exact *)
(* quotient when that is a whole number, and (int)sum is then one less:    *)
(* with borrow every interior sample whose window sum is a positive        *)
(* multiple of 9 is lowered by one.                                        *)
(***************************************************************************)
bmp8_boxBlurBorrow(before, after, borrow) ==
    IF ~borrow THEN after
    ELSE [after EXCEPT !.data =
            [i \in 1..after.dataSize |->
               LET y == (i - 1) \div after.width
                   x == (i - 1) % after.width
                   inner == y >= 1 /\ y < after.height - 1 /\ x >= 1 /\ x < after.width - 1
                   sum == SumSeq([j \in 1..9 |->
                                    before.data[(y + ((j - 1) \div 3) - 1) * before.width
                                                + (x + ((j - 1) % 3) - 1) + 1]], 9)
               IN IF inner /\ i <= before.width * before.height
                     /\ sum > 0 /\ sum % 9 = 0 /\ sum \div 9 <= 255
                  THEN after.data[i] - 1
                  ELSE after.data[i]]]

\* the image after the codec function of filterChoice; env tells whether
\* the value typed was a number, which number, and which malloc fails
main_filtered24(image, filterChoice, env) ==
    CASE filterChoice = 1 -> bmp24_negative(image)
      [] filterChoice = 2 -> bmp24_brightness(image, env.value, "wrap")
      [] filterChoice = 3 -> bmp24_grayscale(image)
      [] filterChoice \in 4..8 ->
           IF env.kernelOk
           THEN bmp24_applyFilter(image, main_kernel(filterChoice),
                                  IF env.tempOk THEN 0 ELSE 1)
           ELSE image

main_filtered8(image, filterChoice, env) ==
    CASE filterChoice = 1 -> bmp8_negative(image)
      [] filterChoice = 2 -> bmp8_brightness(image, env.value, "wrap")
      [] filterChoice = 3 -> bmp8_threshold(image, env.value)
      [] filterChoice = 4 ->
           bmp8_boxBlurBorrow(image,
                              bmp8_applyFilter(image, BoxBlurKernel, env.tempOk, 0).img,
                              env.borrow /\ env.tempOk)
      [] filterChoice \in 5..8 ->
           bmp8_applyFilter(image, main_kernel(filterChoice), env.tempOk, 0).img

(***************************************************************************)
(* case 3: apply a filter.  Choice 9 and an unknown choice go back to the  *)
(* menu.  A value that is no number (choices 2, and 3 of the grayscale     *)
(* menu) skips the call and still reports success.  In the grayscale menu  *)
(* the row-pointer array of the kernel is used without a test: when its    *)
(* malloc fails the write through NULL ends the process.                   *)
(***************************************************************************)
main_filter(m, filterChoice, env) ==
    IF main_filterGuard(m)
    THEN [m EXCEPT !.call = MenuCall(3, "none", "none", NULL, "no image", <<>>)]
    ELSE IF ~env.choiceOk
    THEN [m EXCEPT !.call = MenuCall(3, "none", "none", NULL, "invalid input", <<>>)]
    ELSE IF filterChoice \notin 1..8
    THEN [m EXCEPT !.call = MenuCall(3, "none", "none", NULL, "", <<>>)]
    ELSE IF ~env.valueOk /\ (filterChoice = 2 \/ (filterChoice = 3 /\ m.isColor = 0))
    THEN [m EXCEPT !.call = MenuCall(3, "none", "none", NULL, "applied", <<>>)]
    ELSE IF m.isColor = 1
    THEN [main_use(m, m.currentImage24) EXCEPT
            !.currentImage24.obj = main_filtered24(@, filterChoice, env),
            !.call = MenuCall(3, main_filterName(1, filterChoice), "bmp24",
                              m.currentImage24, "applied", <<>>)]
    ELSE IF filterChoice \in 4..8 /\ ~env.kernelOk
    THEN [m EXCEPT !.status = "crashed",
                   !.call = MenuCall(3, "none", "none", NULL, "", <<>>)]
    ELSE [main_use(m, m.currentImage8) EXCEPT
            !.currentImage8.obj = main_filtered8(@, filterChoice, env),
            !.call = MenuCall(3, main_filterName(0, filterChoice), "bmp8",
                              m.currentImage8, "applied", <<>>)]

\* case 4: display image information
main_info(m) ==
    IF m.isColor = 1 /\ m.currentImage24 # NULL
    THEN [main_use(m, m.currentImage24) EXCEPT
            !.call = MenuCall(4, "fields", "bmp24", m.currentImage24, "info", <<>>)]
    ELSE IF m.isColor = 0 /\ m.currentImage8 # NULL
    THEN [main_use(m, m.currentImage8) EXCEPT
            !.call = MenuCall(4, "bmp8_printInfo", "bmp8", m.currentImage8, "info", <<>>)]
    ELSE [m EXCEPT !.call = MenuCall(4, "none", "none", NULL, "no image", <<>>)]

\* A Quit that frees the grayscale image only.
main_quit_grayOnly(m) ==
    [(IF m.currentImage8 # NULL THEN main_free(m, m.currentImage8, "quit") ELSE m) EXCEPT
       !.status = "quit",
       !.call = MenuCall(5, "none", "none", NULL, "goodbye", <<>>)]

\* case 5: quit
main_quit(m) ==
    LET m8 == IF m.currentImage8 # NULL THEN main_free(m, m.currentImage8, "quit") ELSE m
        m24 == IF m8.currentImage24 # NULL THEN main_free(m8, m8.currentImage24, "quit")
               ELSE m8
    IN [m24 EXCEPT !.status = "quit",
                   !.call = MenuCall(5, "none", "none", NULL, "goodbye", <<>>)]

\* default: a number that is no menu entry
main_default(m) ==
    [m EXCEPT !.call = MenuCall(6, "none", "none", NULL, "invalid choice", <<>>)]

(***************************************************************************)
(* The state machine: a caller that owns one file and at most one image    *)
(* (it loads or allocates only while it holds none), and calls the entry   *)
(* points of the two codecs in any order.  last                            *)
(* records the last call: its name, whether it returned an image / wrote   *)
(* the file, the fopen and fclose counts, whether it ran into undefined    *)
(* behaviour, its argument, and the image before the call.                 *)
(***************************************************************************)
Call(op, ok, opened, closed, ub, arg, pre) ==
    [op |-> op, ok |-> ok, opened |-> opened, closed |-> closed, ub |-> ub,
     arg |-> arg, pre |-> pre]

Init ==
    /\ file \in InputFiles
    /\ img = NULL
    /\ last = Call("none", FALSE, 0, 0, FALSE, 0, NULL)
    /\ steps = 0
    /\ heap = <<>>
    /\ menu = MenuInit

Load8 ==
    /\ steps < MaxSteps
    /\ img = NULL
    /\ \E env \in Env8 :
         \E r \in {bmp8_loadImage(file, env)} :
            /\ img' = r.img
            /\ last' = Call("bmp8_loadImage", r.img # NULL, r.opened, r.closed, FALSE, env, img)
            /\ heap' = r.heap
    /\ steps' = steps + 1
    /\ UNCHANGED menu
    /\ UNCHANGED file

\* bmp24_loadImage in one of the environments envs
Load24In(envs, bound) ==
    /\ steps < bound
    /\ img = NULL
    /\ \E env \in envs :
         \E r \in {bmp24_loadImage(file, env)} :
            /\ img' = r.img
            /\ last' = Call("bmp24_loadImage", r.img # NULL, r.opened, r.closed, FALSE, env, img)
            /\ heap' = r.heap
    /\ steps' = steps + 1
    /\ UNCHANGED menu
    /\ UNCHANGED file

Load24 == Load24In(Env24, MaxSteps)

Allocate24 ==
    /\ steps < MaxSteps
    /\ img = NULL
    /\ \E d \in {<<4, 3>>} : \E allocFail \in 0..3 : \E junk \in Junk :
         \E a \in {bmp24_allocate(d[1], d[2], 24, allocFail, junk)} :
            /\ img' = a
            /\ last' = Call("bmp24_allocate", a # NULL, 0, 0, FALSE, allocFail, img)
            /\ heap' = bmp24_allocateHeap(d[1], d[2], allocFail)
    /\ steps' = steps + 1
    /\ UNCHANGED menu
    /\ UNCHANGED file

Save8 ==
    /\ steps < MaxSteps
    /\ img.kind = "bmp8"
    /\ \E fail \in SaveFails8 :
         \E r \in {bmp8_saveImage(file, img, fail)} :
            /\ file' = r.file
            /\ last' = Call("bmp8_saveImage", r.ok, r.opened, r.closed, FALSE, fail, img)
    /\ steps' = steps + 1
    /\ UNCHANGED menu
    /\ heap' = <<>>
    /\ UNCHANGED img

Save24 ==
    /\ steps < MaxSteps
    /\ img.kind \in {"bmp24", "NULL"}
    /\ \E fail \in SaveFails24 :
         \E r \in {bmp24_saveImage(file, img, fail)} :
            /\ file' = r.file
            /\ last' = Call("bmp24_saveImage", r.ok, r.opened, r.closed, FALSE, fail, img)
    /\ steps' = steps + 1
    /\ UNCHANGED menu
    /\ heap' = <<>>
    /\ UNCHANGED img

CheckType ==
    /\ steps < MaxSteps
    /\ img = NULL
    /\ \E fopenOk \in BOOLEAN :
         \E r \in {check_bmp_type(file, fopenOk)} :
            last' = Call("check_bmp_type", r.type # "NONE", r.opened, r.closed, FALSE,
                         r.type, img)
    /\ steps' = steps + 1
    /\ UNCHANGED menu
    /\ heap' = <<>>
    /\ UNCHANGED <<file, img>>

Negative8 ==
    /\ steps < MaxSteps
    /\ img.kind = "bmp8"
    /\ img' = bmp8_negative(img)
    /\ last' = Call("bmp8_negative", TRUE, 0, 0, FALSE, 0, img)
    /\ steps' = steps + 1
    /\ UNCHANGED menu
    /\ heap' = <<>>
    /\ UNCHANGED file

Brightness8 ==
    /\ steps < MaxSteps
    /\ img.kind = "bmp8"
    /\ \E value \in Deltas : \E ub \in Overflows :
         /\ img' = bmp8_brightness(img, value, ub)
         /\ last' = Call("bmp8_brightness", TRUE, 0, 0,
                         \E i \in 1..img.dataSize : IntAddOverflows(img.data[i], value),
                         value, img)
    /\ steps' = steps + 1
    /\ UNCHANGED menu
    /\ heap' = <<>>
    /\ UNCHANGED file

Threshold8 ==
    /\ steps < MaxSteps
    /\ img.kind = "bmp8"
    /\ \E threshold \in Thresholds :
         /\ img' = bmp8_threshold(img, threshold)
         /\ last' = Call("bmp8_threshold", TRUE, 0, 0, FALSE, threshold, img)
    /\ steps' = steps + 1
    /\ UNCHANGED menu
    /\ heap' = <<>>
    /\ UNCHANGED file

ApplyFilter8 ==
    /\ steps < MaxSteps
    /\ img.kind = "bmp8"
    /\ \E kernel \in Kernels : \E mallocOk \in BOOLEAN : \E junk \in Junk :
         \E r \in {bmp8_applyFilter(img, kernel, mallocOk, junk)} :
            /\ img' = r.img
            /\ last' = Call("bmp8_applyFilter", mallocOk, 0, 0, r.ub, kernel, img)
            /\ heap' = bmp8_applyFilterHeap(img, kernel, mallocOk)
    /\ steps' = steps + 1
    /\ UNCHANGED menu
    /\ UNCHANGED file

Equalize8 ==
    /\ steps < MaxSteps
    /\ img.kind = "bmp8"
    /\ \E allocFail \in 0..3 :
         /\ img' = bmp8_equalize(img, allocFail)
         /\ last' = Call("bmp8_equalize", allocFail = 0, 0, 0, FALSE, allocFail, img)
         /\ heap' = bmp8_equalizeHeap(img, allocFail)
    /\ steps' = steps + 1
    /\ UNCHANGED menu
    /\ UNCHANGED file

Negative24 ==
    /\ steps < MaxSteps
    /\ img.kind = "bmp24"
    /\ img' = bmp24_negative(img)
    /\ last' = Call("bmp24_negative", TRUE, 0, 0, FALSE, 0, img)
    /\ steps' = steps + 1
    /\ UNCHANGED menu
    /\ heap' = <<>>
    /\ UNCHANGED file

Grayscale24 ==
    /\ steps < MaxSteps
    /\ img.kind = "bmp24"
    /\ img' = bmp24_grayscale(img)
    /\ last' = Call("bmp24_grayscale", TRUE, 0, 0, FALSE, 0, img)
    /\ steps' = steps + 1
    /\ UNCHANGED menu
    /\ heap' = <<>>
    /\ UNCHANGED file

Brightness24 ==
    /\ steps < MaxSteps
    /\ img.kind = "bmp24"
    /\ \E value \in Deltas : \E ub \in Overflows :
         /\ img' = bmp24_brightness(img, value, ub)
         /\ last' = Call("bmp24_brightness", TRUE, 0, 0,
                         \E y \in 1..img.height : \E x \in 1..img.width : \E c \in 0..2 :
                            IntAddOverflows(PixelByte(img.data[y][x], c), value),
                         value, img)
    /\ steps' = steps + 1
    /\ UNCHANGED menu
    /\ heap' = <<>>
    /\ UNCHANGED file

\* bmp24_applyFilter with one of the allocation outcomes allocFails
ApplyFilter24In(allocFails, bound) ==
    /\ steps < bound
    /\ img.kind = "bmp24"
    /\ \E kernel \in Kernels : \E allocFail \in allocFails :
         /\ img' = bmp24_applyFilter(img, kernel, allocFail)
         /\ last' = Call("bmp24_applyFilter", allocFail = 0, 0, 0, FALSE, kernel, img)
         /\ heap' = bmp24_applyFilterHeap(img, kernel, allocFail)
    /\ steps' = steps + 1
    /\ UNCHANGED menu
    /\ UNCHANGED file

ApplyFilter24 == ApplyFilter24In(0..1, MaxSteps)

\* bmp24_equalize with one of the allocation outcomes fails x whichs
Equalize24In(fails, whichs, bound) ==
    /\ steps < bound
    /\ img.kind = "bmp24"
    /\ \E fail \in fails : \E seen \in NumPixelsSeen(img) :
         \E which \in (IF fail \in {"buffers", "row"} THEN whichs ELSE {1}) :
         \E r \in {bmp24_equalize(img, fail, seen)} :
            /\ img' = r.img
            /\ last' = Call("bmp24_equalize", r.done, 0, 0, fail \notin {"buffers", "row"},
                            [fail |-> fail, seen |-> seen], img)
            /\ heap' = bmp24_equalizeHeap(img, fail, seen, which)
    /\ steps' = steps + 1
    /\ UNCHANGED menu
    /\ UNCHANGED file

Equalize24 == Equalize24In(EqualizeFails24, {1}, MaxSteps)

\* op(image) with the arguments used for an absent image
CallTransform(op, image) ==
    CASE op = "bmp8_negative" -> [img |-> bmp8_negative(image), ub |-> FALSE]
      [] op = "bmp8_brightness" -> [img |-> bmp8_brightness(image, 100, "wrap"), ub |-> FALSE]
      [] op = "bmp8_threshold" -> [img |-> bmp8_threshold(image, 128), ub |-> FALSE]
      [] op = "bmp8_applyFilter" -> bmp8_applyFilter(image, GaussianBlurKernel, TRUE, 0)
      [] op = "bmp8_equalize" -> [img |-> bmp8_equalize(image, 0), ub |-> FALSE]
      [] op = "bmp24_negative" -> [img |-> bmp24_negative(image), ub |-> FALSE]
      [] op = "bmp24_grayscale" -> [img |-> bmp24_grayscale(image), ub |-> FALSE]
      [] op = "bmp24_brightness" -> [img |-> bmp24_brightness(image, 100, "wrap"), ub |-> FALSE]
      [] op = "bmp24_applyFilter" -> [img |-> bmp24_applyFilter(image, GaussianBlurKernel, 0),
                                      ub |-> FALSE]
      [] op = "bmp24_equalize" -> [img |-> bmp24_equalize(image, "none", 0).img, ub |-> FALSE]

\* a transform entry point called while no image is loaded
TransformAbsent ==
    /\ steps < MaxSteps
    /\ img = NULL
    /\ \E c \in AbsentCalls :
         \E r \in {CallTransform(c[1], c[2])} :
            last' = Call("absent_image", FALSE, 0, 0, r.ub, [fn |-> c[1], result |-> r.img],
                         c[2])
    /\ steps' = steps + 1
    /\ UNCHANGED menu
    /\ heap' = <<>>
    /\ UNCHANGED <<file, img>>

Next ==
    \/ Load8
    \/ Load24
    \/ Allocate24
    \/ Save8
    \/ Save24
    \/ CheckType
    \/ Negative8
    \/ Brightness8
    \/ Threshold8
    \/ ApplyFilter8
    \/ Equalize8
    \/ Negative24
    \/ Grayscale24
    \/ Brightness24
    \/ ApplyFilter24
    \/ Equalize24
    \/ TransformAbsent

Spec == Init /\ [][Next]_vars

(***************************************************************************)
(* Environments in which every fopen and malloc succeeds.                  *)
(***************************************************************************)
OkEnv8 == [fopenOk |-> TRUE, mallocImgOk |-> TRUE, mallocDataOk |-> TRUE]

OkEnv24 == [fopenOk |-> TRUE, allocFail |-> 0, junk |-> 0]

(***************************************************************************)
(* The same caller with every allocation of the 24-bit codec allowed to    *)
(* fail: each row of the pixel buffer in bmp24_loadImage and in            *)
(* bmp24_applyFilter, and each buffer and row of bmp24_equalize.           *)
(***************************************************************************)
Env24Heap == [fopenOk : {TRUE}, allocFail : 0..(MaxHeight + 2), junk : {0}]

EqualizeFailsHeap == EqualizeFails24 \cup {"remap"}

HeapLoad24 == Load24In(Env24Heap, MaxHeapSteps)

HeapApplyFilter24 == ApplyFilter24In(0..(MaxHeight + 1), MaxHeapSteps)

HeapEqualize24 == Equalize24In(EqualizeFailsHeap, 1..MaxHeight, MaxHeapSteps)

NextHeap ==
    \/ Load8
    \/ HeapLoad24
    \/ ApplyFilter8
    \/ Equalize8
    \/ HeapApplyFilter24
    \/ HeapEqualize24

SpecHeap == Init /\ [][NextHeap]_vars

(***************************************************************************)
(* The caller given a grayscale file that holds a fully populated ramp:    *)
(* as many samples as there are intensities, each intensity once, in the   *)
(* order (a * i + b) mod 256 with a odd.  It loads the file, and           *)
(* equalizes or negates the image.                                         *)
(***************************************************************************)
RampFile(w, h, a, b) ==
    Header54(BMP_TYPE, 1078 + w * h, 1078, 40, w, h, 8, 0, w * h, 256)
      \o GrayPalette
      \o [i \in 1..(w * h) |-> (a * (i - 1) + b) % 256]

RampFiles ==
    {RampFile(d[1], d[2], a, b) :
        d \in {<<16, 16>>, <<256, 1>>, <<4, 64>>}, a \in {1, 77, 255}, b \in {0, 100}}

InitRamp ==
    /\ file \in RampFiles
    /\ img = NULL
    /\ last = Call("none", FALSE, 0, 0, FALSE, 0, NULL)
    /\ steps = 0
    /\ heap = <<>>
    /\ menu = MenuInit

NextRamp ==
    \/ Load8
    \/ Equalize8
    \/ Negative8

SpecRamp == InitRamp /\ [][NextRamp]_vars

(***************************************************************************)
(* The menu loop as a state machine: one action per menu choice, taken     *)
(* while the program runs.  file is the file the user names.               *)
(***************************************************************************)
MenuFiles ==
    {Bmp8File(3, 3, "padded", 1), Bmp24File(BMP_TYPE, 3, 3, 40, 24, 0, 1),
     Bmp24File(BMP_TYPE, 3, 3, 40, 32, 0, 1)}

MenuEnv24 == {OkEnv24, [fopenOk |-> TRUE, allocFail |-> 1, junk |-> 0]}

MenuEnv8 == {OkEnv8, [fopenOk |-> TRUE, mallocImgOk |-> TRUE, mallocDataOk |-> FALSE]}

FilterEnvOk ==
    [choiceOk |-> TRUE, valueOk |-> TRUE, value |-> 100, kernelOk |-> TRUE, tempOk |-> TRUE,
     borrow |-> FALSE]

MenuFilterEnvs ==
    {FilterEnvOk,
     [FilterEnvOk EXCEPT !.choiceOk = FALSE],
     [FilterEnvOk EXCEPT !.valueOk = FALSE],
     [FilterEnvOk EXCEPT !.kernelOk = FALSE],
     [FilterEnvOk EXCEPT !.tempOk = FALSE],
     [FilterEnvOk EXCEPT !.borrow = TRUE]}

MenuOpen ==
    /\ steps < MaxMenuSteps
    /\ menu.status = "running"
    /\ \E f \in MenuFiles : \E env24 \in MenuEnv24 : \E env8 \in MenuEnv8 :
         /\ menu' = main_open(menu, f, env24, env8)
         /\ file' = f
    /\ steps' = steps + 1
    /\ UNCHANGED <<img, last, heap>>

MenuSave ==
    /\ steps < MaxMenuSteps
    /\ menu.status = "running"
    /\ \E fail \in {"none", "fopen"} :
         \E r \in {main_save(menu, file, fail, fail)} :
            /\ menu' = r.menu
            /\ file' = r.file
    /\ steps' = steps + 1
    /\ UNCHANGED <<img, last, heap>>

MenuFilter ==
    /\ steps < MaxMenuSteps
    /\ menu.status = "running"
    /\ \E filterChoice \in 1..10 : \E env \in MenuFilterEnvs :
         menu' = main_filter(menu, filterChoice, env)
    /\ steps' = steps + 1
    /\ UNCHANGED <<file, img, last, heap>>

MenuInfo ==
    /\ steps < MaxMenuSteps
    /\ menu.status = "running"
    /\ menu' = main_info(menu)
    /\ steps' = steps + 1
    /\ UNCHANGED <<file, img, last, heap>>

MenuQuit ==
    /\ menu.status = "running"
    /\ menu' = main_quit(menu)
    /\ UNCHANGED <<file, img, last, steps, heap>>

MenuDefault ==
    /\ steps < MaxMenuSteps
    /\ menu.status = "running"
    /\ menu' = main_default(menu)
    /\ steps' = steps + 1
    /\ UNCHANGED <<file, img, last, heap>>

NextMain ==
    \/ MenuOpen
    \/ MenuSave
    \/ MenuFilter
    \/ MenuInfo
    \/ MenuQuit
    \/ MenuDefault

InitMain ==
    /\ file = <<>>
    /\ img = NULL
    /\ last = Call("none", FALSE, 0, 0, FALSE, 0, NULL)
    /\ steps = 0
    /\ heap = <<>>
    /\ menu = MenuInit

SpecMain == InitMain /\ [][NextMain]_vars

(***************************************************************************)
(* The row size computations applied to a width: the widths of small       *)
(* images and the largest widths whose triple is an int.                   *)
(***************************************************************************)
PadWidths == (1..MaxPadWidth) \cup {(INT_MAX \div 3) - k : k \in 0..MaxPadWidth}

InitPad ==
    /\ file = <<>>
    /\ img = NULL
    /\ \E width \in PadWidths : \E ub \in Overflows :
         last = Call("width", FALSE, 0, 0, FALSE, [width |-> width, ub |-> ub], NULL)
    /\ steps = 0
    /\ heap = <<>>
    /\ menu = MenuInit

PadRead ==
    /\ steps < MaxSteps
    /\ \E r \in {bmp24_readPadding(last.arg.width, last.arg.ub)} :
         last' = Call("bmp24_readPixelData", TRUE, 0, 0, r.ub, last.arg, r)
    /\ steps' = steps + 1
    /\ UNCHANGED <<file, img, heap, menu>>

PadWrite ==
    /\ steps < MaxSteps
    /\ \E r \in {bmp24_writePadding(last.arg.width, last.arg.ub)} :
         last' = Call("bmp24_writePixelData", TRUE, 0, 0, r.ub, last.arg, r)
    /\ steps' = steps + 1
    /\ UNCHANGED <<file, img, heap, menu>>

PadSave ==
    /\ steps < MaxSteps
    /\ \E r \in {bmp24_saveRowSize(last.arg.width, last.arg.ub)} :
         last' = Call("bmp24_saveImage", TRUE, 0, 0, r.ub, last.arg, r)
    /\ steps' = steps + 1
    /\ UNCHANGED <<file, img, heap, menu>>

NextPad ==
    \/ PadRead
    \/ PadWrite
    \/ PadSave

SpecPad == InitPad /\ [][NextPad]_vars

Saved24 == last.op = "bmp24_saveImage" /\ last.ok

Saved8 == last.op = "bmp8_saveImage" /\ last.ok

(***************************************************************************)
(* C1: colour round-trip.  Whenever bmp24_saveImage has written the file   *)
(* from a valid image (made by bmp24_allocate or by bmp24_loadImage),      *)
(* loading that file yields an image of the same width and height with     *)
(* exactly the same pixel buffer.                                          *)
(***************************************************************************)
C1_ColorRoundTrip ==
    Saved24 =>
      LET r == bmp24_loadImage(file, OkEnv24).img
      IN /\ r # NULL
         /\ r.width = img.width
         /\ r.height = img.height
         /\ r.data = img.data

(***************************************************************************)
(* C2: bmp24_saveImage derives fileSize, dataOffset and imageSize from the *)
(* current width and height only.  The written file does not depend on the *)
(* stored header.size / header.offset / header_info.imagesize; its fields  *)
(* are fileSize = 54 + paddedRow*height, dataOffset = 54, imageSize =      *)
(* paddedRow*height; and the pixel rows start at the offset the written    *)
(* dataOffset field declares.                                              *)
(***************************************************************************)
C2_SaveDerivesLayout ==
    Saved24 =>
      LET padded == RowPaddedSize(img.width)
          h == img.height
          other == [img EXCEPT !.header.size = 0, !.header.offset = 54,
                               !.header_info.imagesize = 0]
          declared == U32At(file, BITMAP_OFFSET_OFFSET)
      IN /\ file = bmp24_saveImage(<<>>, other, "none").file
         /\ U32At(file, BITMAP_SIZE_OFFSET) = 54 + padded * h
         /\ declared = 54
         /\ U32At(file, BITMAP_SIZE_RAW_OFFSET) = padded * h
         /\ Len(file) >= declared + padded * h
         /\ \A y \in 1..h : \A x \in 1..img.width : \A c \in 0..2 :
              file[declared + (h - y) * padded + 3 * (x - 1) + c + 1]
                = PixelByte(img.data[y][x], c)

(***************************************************************************)
(* C3: a truncated file is a load failure for both codecs.  The file is    *)
(* truncated when it ends before the 54 header bytes, or before the        *)
(* colour table and the pixel bytes its header announces (8-bit), or       *)
(* before the last pixel of the rows its header announces (24-bit).        *)
(***************************************************************************)
Truncated8(f) ==
    \/ Len(f) < BMP8_HEADER_SIZE + BMP8_COLORTABLE_SIZE
    \/ U32At(f, 34) > Len(f) - (BMP8_HEADER_SIZE + BMP8_COLORTABLE_SIZE)

Truncated24(f) ==
    \/ Len(f) < BMP_HEADER_SIZE + BMP_INFOHEADER_SIZE
    \/ /\ I32At(f, BITMAP_WIDTH_OFFSET) > 0
       /\ I32At(f, BITMAP_HEIGHT_OFFSET) > 0
       /\ Len(f) < U32At(f, BITMAP_OFFSET_OFFSET)
                     + RowPaddedSize(I32At(f, BITMAP_WIDTH_OFFSET))
                         * (I32At(f, BITMAP_HEIGHT_OFFSET) - 1)
                     + 3 * I32At(f, BITMAP_WIDTH_OFFSET)

C3_TruncatedLoadFails ==
    /\ (last.op = "bmp8_loadImage" /\ Truncated8(file)) => ~last.ok
    /\ (last.op = "bmp24_loadImage" /\ Truncated24(file)) => ~last.ok

(***************************************************************************)
(* C4: bmp24_loadImage on a file that holds its 54 header bytes returns    *)
(* NULL whenever the magic is not 0x4D42, the info-header size is below    *)
(* 40, bitsPerPixel is not 24 or compression is not 0.  When the           *)
(* info-header size is larger than 40, the other fields are valid (width   *)
(* and height positive) and fopen and malloc succeed, it returns an image  *)
(* whose pixels are the file's bytes read from dataOffset, bottom          *)
(* scanline first.                                                         *)
(***************************************************************************)
HeaderComplete(f) == Len(f) >= BMP_HEADER_SIZE + BMP_INFOHEADER_SIZE

LargeInfoHeaderValid(f) ==
    /\ HeaderComplete(f)
    /\ U16At(f, BITMAP_MAGIC_OFFSET) = BMP_TYPE
    /\ U32At(f, BITMAP_INFO_SIZE_OFFSET) > BMP_INFOHEADER_SIZE
    /\ U16At(f, BITMAP_DEPTH_OFFSET) = 24
    /\ U32At(f, BITMAP_COMPRESSION_OFFSET) = 0
    /\ I32At(f, BITMAP_WIDTH_OFFSET) > 0
    /\ I32At(f, BITMAP_HEIGHT_OFFSET) > 0
    /\ U32At(f, BITMAP_OFFSET_OFFSET) >= 0

PixelsReadFromDataOffset(image, f) ==
    LET dataOffset == U32At(f, BITMAP_OFFSET_OFFSET)
        padded == RowPaddedSize(image.width)
    IN \A y \in 1..image.height : \A x \in 1..image.width : \A c \in 0..2 :
         LET pos == dataOffset + (image.height - y) * padded + 3 * (x - 1) + c
         IN pos < Len(f) => PixelByte(image.data[y][x], c) = f[pos + 1]

C4_LoadValidation ==
    last.op = "bmp24_loadImage" =>
      /\ ( /\ HeaderComplete(file)
           /\ \/ U16At(file, BITMAP_MAGIC_OFFSET) # BMP_TYPE
              \/ U32At(file, BITMAP_INFO_SIZE_OFFSET) \in 0..39
              \/ U16At(file, BITMAP_DEPTH_OFFSET) # 24
              \/ U32At(file, BITMAP_COMPRESSION_OFFSET) # 0 )
           => (~last.ok /\ img = NULL)
      /\ (LargeInfoHeaderValid(file) /\ last.arg.fopenOk /\ last.arg.allocFail = 0)
           => /\ last.ok
              /\ img # NULL
              /\ img.width = I32At(file, BITMAP_WIDTH_OFFSET)
              /\ img.height = I32At(file, BITMAP_HEIGHT_OFFSET)
              /\ PixelsReadFromDataOffset(img, file)

C4_Witness ==
    /\ last.op = "bmp24_loadImage"
    /\ last.ok
    /\ LargeInfoHeaderValid(file)
    /\ img.header_info.size = 124
    /\ ~Truncated24(file)
    /\ \E y \in 1..img.height : \E x \in 1..img.width : img.data[y][x].red # 0

(***************************************************************************)
(* C5: on every exit path of bmp8_loadImage, bmp24_loadImage,              *)
(* bmp8_saveImage, bmp24_saveImage and check_bmp_type, the call has opened *)
(* at most one file handle and has closed it exactly once before it        *)
(* returns (and has closed nothing when fopen failed).                     *)
(***************************************************************************)
FileOps ==
    {"bmp8_loadImage", "bmp24_loadImage", "bmp8_saveImage", "bmp24_saveImage",
     "check_bmp_type"}

C5_HandleClosedOnce ==
    last.op \in FileOps => (last.opened \in {0, 1} /\ last.closed = last.opened)

\* bmp8_loadImage leaves through the short pixel read, its last error path.
C5_Witness ==
    /\ last.op = "bmp8_loadImage"
    /\ ~last.ok
    /\ last.arg = OkEnv8
    /\ last.opened = 1
    /\ Len(file) >= BMP8_HEADER_SIZE + BMP8_COLORTABLE_SIZE
    /\ U16At(file, BITMAP_MAGIC_OFFSET) = BMP_TYPE
    /\ U16At(file, BITMAP_DEPTH_OFFSET) = 8

(***************************************************************************)
(* C6: after a successful bmp8_loadImage and after any sequence of         *)
(* transforms, the grayscale image has dataSize = width*height and its     *)
(* pixel buffer holds exactly width*height samples (no row padding).       *)
(***************************************************************************)
C6_DataSizeIsWidthTimesHeight ==
    img.kind = "bmp8" =>
      /\ img.dataSize = img.width * img.height
      /\ Len(img.data) = img.width * img.height

(***************************************************************************)
(* C7: the file written by bmp8_saveImage is the 54-byte header and the    *)
(* 1024-byte colour table verbatim, followed by height rows each padded to *)
(* a 4-byte boundary, and every pad byte is zero.                          *)
(***************************************************************************)
Stride8(width) == ((width + 3) \div 4) * 4

C7_SavePadsRowsWithZeros ==
    Saved8 =>
      LET tableEnd == BMP8_HEADER_SIZE + BMP8_COLORTABLE_SIZE
          stride == Stride8(img.width)
      IN /\ Len(file) = tableEnd + stride * img.height
         /\ SubSeq(file, 1, BMP8_HEADER_SIZE) = img.header
         /\ SubSeq(file, BMP8_HEADER_SIZE + 1, tableEnd) = img.colorTable
         /\ \A r \in 0..(img.height - 1) : \A c \in img.width..(stride - 1) :
              file[tableEnd + r * stride + c + 1] = 0

(***************************************************************************)
(* C8: grayscale round-trip.  For a file F written by bmp8_saveImage,      *)
(* bmp8_loadImage(F) succeeds, saving the loaded image gives a file        *)
(* byte-identical to F, and loading that file again yields the same        *)
(* header, colour table, dimensions and pixel buffer.                      *)
(***************************************************************************)
C8_GrayRoundTrip ==
    Saved8 =>
      LET r == bmp8_loadImage(file, OkEnv8).img
      IN /\ r # NULL
         /\ LET again == bmp8_saveImage(<<>>, r, "none").file
                r2 == bmp8_loadImage(again, OkEnv8).img
            IN /\ again = file
               /\ r2 # NULL
               /\ r2.header = r.header
               /\ r2.colorTable = r.colorTable
               /\ r2.width = r.width
               /\ r2.height = r.height
               /\ r2.dataSize = r.dataSize
               /\ r2.data = r.data
               /\ r.data = img.data

\* F was written from an image that was loaded and then transformed.
C8_Witness ==
    /\ Saved8
    /\ steps = 3
    /\ img.dataSize > img.width * img.height
    /\ \E i \in 1..img.dataSize : img.data[i] # 0
    /\ SubSeq(file, BMP8_HEADER_SIZE + BMP8_COLORTABLE_SIZE + 1, Len(file)) = img.data

(***************************************************************************)
(* C9: convolution border policy for bmp8_applyFilter and                  *)
(* bmp24_applyFilter with a kernel of odd size k = 2n+1: every pixel       *)
(* within n of an image edge is identical to the pre-filter image, and     *)
(* nothing outside the image is read or written.                           *)
(***************************************************************************)
Border(y, x, n, width, height) ==
    x < n \/ x >= width - n \/ y < n \/ y >= height - n

C9_BorderPolicy ==
    /\ (last.op = "bmp8_applyFilter" /\ last.ok) =>
         LET n == last.arg.size \div 2
         IN /\ ~last.ub
            /\ \A i \in 1..img.dataSize :
                 Border((i - 1) \div img.width, (i - 1) % img.width, n,
                        img.width, img.height)
                   => img.data[i] = last.pre.data[i]
    /\ (last.op = "bmp24_applyFilter" /\ last.ok) =>
         LET n == last.arg.size \div 2
         IN \A y \in 1..img.height : \A x \in 1..img.width :
              Border(y - 1, x - 1, n, img.width, img.height)
                => img.data[y][x] = last.pre.data[y][x]

(***************************************************************************)
(* C10: bmp8_brightness and bmp24_brightness set every sample v to         *)
(* clamp(v + delta, 0, 255) computed over the mathematical integers, for   *)
(* every 32-bit signed delta.                                              *)
(***************************************************************************)
MathClamp(v, delta) ==
    IF delta > 255 THEN 255 ELSE IF delta < -255 THEN 0 ELSE Clamp255(v + delta)

C10_BrightnessMathClamp ==
    /\ last.op = "bmp8_brightness" =>
         \A i \in 1..img.dataSize :
            img.data[i] = MathClamp(last.pre.data[i], last.arg)
    /\ last.op = "bmp24_brightness" =>
         \A y \in 1..img.height : \A x \in 1..img.width : \A c \in 0..2 :
            PixelByte(img.data[y][x], c)
              = MathClamp(PixelByte(last.pre.data[y][x], c), last.arg)


(***************************************************************************)
(* C11: negative is self-inverse.  One application turns every sample v    *)
(* into 255 - v (all dataSize bytes of the 8-bit image, all three channels *)
(* of every pixel of the 24-bit image), and a second application restores  *)
(* the image as it was before the first.                                   *)
(***************************************************************************)
C11_NegativeSelfInverse ==
    /\ last.op = "bmp8_negative" =>
         /\ \A i \in 1..img.dataSize : img.data[i] = 255 - last.pre.data[i]
         /\ bmp8_negative(img) = last.pre
    /\ last.op = "bmp24_negative" =>
         /\ \A y \in 1..img.height : \A x \in 1..img.width : \A c \in 0..2 :
              PixelByte(img.data[y][x], c) = 255 - PixelByte(last.pre.data[y][x], c)
         /\ bmp24_negative(img) = last.pre

C11_Witness ==
    /\ last.op = "bmp8_negative"
    /\ img.dataSize >= img.width * img.height
    /\ \E i \in 1..img.dataSize : img.data[i] \notin {0, 255}

(***************************************************************************)
(* C12: threshold idempotence.  For every level t, inside or outside       *)
(* 0..255, bmp8_threshold(t) sets each sample to 255 if sample >= t and to *)
(* 0 otherwise, and applying it again with the same t changes nothing.     *)
(***************************************************************************)
C12_ThresholdIdempotent ==
    last.op = "bmp8_threshold" =>
      /\ \A i \in 1..img.dataSize :
            img.data[i] = IF last.pre.data[i] >= last.arg THEN 255 ELSE 0
      /\ bmp8_threshold(img, last.arg) = img

C12_Witness ==
    /\ last.op = "bmp8_threshold"
    /\ last.arg \in 0..255
    /\ \E i \in 1..img.dataSize : img.data[i] = 255
    /\ \E i \in 1..img.dataSize : img.data[i] = 0
    /\ \E i \in 1..img.dataSize : last.pre.data[i] \notin {0, 255}


(***************************************************************************)
(* C13: brightness composition.  After brightness(d1) on a sample v, a     *)
(* following brightness(d2) gives clamp(clamp(v + d1) + d2), the clamps    *)
(* taken over the mathematical integers; where neither v + d1 nor          *)
(* v + d1 + d2 leaves 0..255 this is what brightness(d1 + d2) gives on v.  *)
(* BrightnessComposes(D1) states it for the first deltas d1 in D1 and the  *)
(* second deltas in SecondDeltas.                                          *)
(***************************************************************************)
SecondDeltas == {-100, 60}

ComposedSample(v, d1, d2, two, direct) ==
    /\ two = Clamp255(MathClamp(v, d1) + d2)
    /\ (d1 \in (-255)..255 /\ v + d1 \in 0..255 /\ v + d1 + d2 \in 0..255)
          => two = direct

BrightnessComposes(D1) ==
    /\ (last.op = "bmp8_brightness" /\ last.arg \in D1) =>
         \A d2 \in SecondDeltas :
            LET two == bmp8_brightness(img, d2, "wrap")
                d12 == IF last.arg \in (-255)..255 THEN last.arg + d2 ELSE 0
                direct == bmp8_brightness(last.pre, d12, "wrap")
            IN \A i \in 1..img.dataSize :
                 ComposedSample(last.pre.data[i], last.arg, d2, two.data[i], direct.data[i])
    /\ (last.op = "bmp24_brightness" /\ last.arg \in D1) =>
         \A d2 \in SecondDeltas :
            LET two == bmp24_brightness(img, d2, "wrap")
                d12 == IF last.arg \in (-255)..255 THEN last.arg + d2 ELSE 0
                direct == bmp24_brightness(last.pre, d12, "wrap")
            IN \A y \in 1..img.height : \A x \in 1..img.width : \A c \in 0..2 :
                 ComposedSample(PixelByte(last.pre.data[y][x], c), last.arg, d2,
                                PixelByte(two.data[y][x], c),
                                PixelByte(direct.data[y][x], c))

C13_BrightnessComposition == BrightnessComposes(Deltas)

\* The same for the first deltas d1 for which no v + d1 overflows an int.
BrightnessComposesWithoutOverflow ==
    BrightnessComposes({d \in Deltas : d <= INT_MAX - 255})


(***************************************************************************)
(* C14: bmp24_grayscale replaces the three channels of every pixel by      *)
(* floor((R + G + B) / 3): integer truncation, no rounding, the sum not    *)
(* wrapped to 8 bits.  An all-black image turned to grayscale and then     *)
(* negated is all-white.                                                   *)
(***************************************************************************)
AllPixels(image, value) ==
    \A y \in 1..image.height : \A x \in 1..image.width : \A c \in 0..2 :
       PixelByte(image.data[y][x], c) = value

C14_GrayscaleFloorAverage ==
    last.op = "bmp24_grayscale" =>
      /\ \A y \in 1..img.height : \A x \in 1..img.width : \A c \in 0..2 :
            LET p == last.pre.data[y][x]
            IN /\ 3 * PixelByte(img.data[y][x], c) <= p.red + p.green + p.blue
               /\ p.red + p.green + p.blue < 3 * PixelByte(img.data[y][x], c) + 3
      /\ AllPixels(last.pre, 0) => AllPixels(bmp24_negative(img), 255)

\* a pixel whose sum exceeds 255 and is not a multiple of 3
C14_Witness ==
    /\ last.op = "bmp24_grayscale"
    /\ \E y \in 1..img.height : \E x \in 1..img.width :
          LET p == last.pre.data[y][x]
          IN (p.red + p.green + p.blue) > 255 /\ (p.red + p.green + p.blue) % 3 = 2


(***************************************************************************)
(* C15: grayscale equalization of a uniform image is the identity.  When   *)
(* the image holds width*height samples, all of the same intensity (so     *)
(* cdf_min = numPixels), bmp8_equalize leaves every sample unchanged; the  *)
(* table it applies is the identity table, built without dividing by       *)
(* numPixels - cdf_min = 0.  The 2x2 image [10, 10, 10, 10] stays as it    *)
(* is.                                                                     *)
(***************************************************************************)
Uniform8(image) ==
    /\ image.dataSize > 0
    /\ image.dataSize = image.width * image.height
    /\ \A i \in 1..image.dataSize : image.data[i] = image.data[1]

C15_EqualizeUniformIdentity ==
    (last.op = "bmp8_equalize" /\ Uniform8(last.pre)) =>
      /\ img = last.pre
      /\ LET hist == bmp8_computeHistogram(last.pre)
              numPixels == last.pre.width * last.pre.height
              table == bmp8_computeCDF(hist, numPixels, 0)
         IN /\ FirstNonZero(CumulativeSum(hist, 1, 256)) = numPixels
            /\ \A v \in Intensities : table[v + 1] = v

C15_Witness ==
    /\ last.op = "bmp8_equalize"
    /\ last.ok
    /\ last.pre.width = 2
    /\ last.pre.height = 2
    /\ last.pre.data = <<10, 10, 10, 10>>
    /\ img.data = <<10, 10, 10, 10>>

(***************************************************************************)
(* C16: a transform called without an image does nothing.  Each of         *)
(* bmp8_negative, bmp8_brightness, bmp8_threshold, bmp8_applyFilter,       *)
(* bmp8_equalize, bmp24_negative, bmp24_grayscale, bmp24_brightness,       *)
(* bmp24_applyFilter and bmp24_equalize, called with a null image pointer  *)
(* or with an image whose pixel buffer is null, returns with the image it  *)
(* was given untouched, reads no memory outside an object, and leaves the  *)
(* loaded image and the file as they were.                                 *)
(***************************************************************************)
C16_AbsentImageNoOp ==
    last.op = "absent_image" =>
      /\ Absent(last.pre)
      /\ last.arg.result = last.pre
      /\ ~last.ub
      /\ img = NULL

C16_Witness ==
    /\ last.op = "absent_image"
    /\ last.arg.fn = "bmp24_negative"
    /\ last.pre = NODATA24
    /\ last.arg.result = NODATA24

(***************************************************************************)
(* C17: check_bmp_type classifies a file by its magic and depth only.  It  *)
(* answers BMP8 exactly when the file opens, its first two bytes are the   *)
(* magic 0x4D42 ('B', 'M') and the 16-bit field at offset 0x1C is 8; BMP24 *)
(* exactly when that field is 24; and none in every other case: the file  *)
(* cannot be opened, is too short, has another magic or another depth.     *)
(***************************************************************************)
MagicBytesOk == Len(file) >= 2 /\ file[1] = 66 /\ file[2] = 77

DepthFieldIs(d) == Len(file) >= 30 /\ file[29] + 256 * file[30] = d

C17_CheckTypeClassification ==
    last.op = "check_bmp_type" =>
      /\ last.arg \in {"BMP8", "BMP24", "NONE"}
      /\ last.arg = "BMP8" <=> (last.opened = 1 /\ MagicBytesOk /\ DepthFieldIs(8))
      /\ last.arg = "BMP24" <=> (last.opened = 1 /\ MagicBytesOk /\ DepthFieldIs(24))

\* a file with the magic and a depth field of 32 is classified as none
C17_Witness ==
    /\ last.op = "check_bmp_type"
    /\ last.opened = 1
    /\ MagicBytesOk
    /\ Len(file) >= 30
    /\ ~DepthFieldIs(8)
    /\ ~DepthFieldIs(24)
    /\ last.arg = "NONE"

(***************************************************************************)
(* C18: bmp24_loadImage stores the scanlines bottom-up.  For a file that   *)
(* holds all its scanlines, scanline k after dataOffset (k = 0 is the      *)
(* first on disk) becomes in-memory row height-1-k; a scanline is width    *)
(* pixels of three bytes in the order blue, green, red, followed by        *)
(* ((width*3+3)&~3) - width*3 padding bytes that are skipped; so row 0 in  *)
(* memory is the last scanline of the file.  (Rows are numbered from 1 in  *)
(* the model: row height-1-k is img.data[height-k].)                       *)
(***************************************************************************)
ScanlinePadding(width) == (4 - ((3 * width) % 4)) % 4

AllScanlinesPresent(f) ==
    /\ HeaderComplete(f)
    /\ I32At(f, BITMAP_WIDTH_OFFSET) > 0
    /\ I32At(f, BITMAP_HEIGHT_OFFSET) > 0
    /\ U32At(f, BITMAP_OFFSET_OFFSET) >= 0
    /\ U32At(f, BITMAP_OFFSET_OFFSET)
         + I32At(f, BITMAP_HEIGHT_OFFSET)
           * (3 * I32At(f, BITMAP_WIDTH_OFFSET) + ScanlinePadding(I32At(f, BITMAP_WIDTH_OFFSET)))
         <= Len(f)

C18_ScanlinesBottomUp ==
    (last.op = "bmp24_loadImage" /\ last.ok /\ AllScanlinesPresent(file)) =>
      LET dataOffset == U32At(file, BITMAP_OFFSET_OFFSET)
          scanline == 3 * img.width + ScanlinePadding(img.width)
      IN \A k \in 0..(img.height - 1) : \A x \in 0..(img.width - 1) :
           LET start == dataOffset + k * scanline + 3 * x
               p == img.data[img.height - k][x + 1]
           IN /\ p.blue = file[start + 1]
              /\ p.green = file[start + 2]
              /\ p.red = file[start + 3]

\* a 3x3 file (9 bytes of pixels and 3 of padding per scanline) whose
\* first and last scanlines differ
C18_Witness ==
    /\ last.op = "bmp24_loadImage"
    /\ last.ok
    /\ AllScanlinesPresent(file)
    /\ img.width = 3
    /\ img.height = 3
    /\ ScanlinePadding(img.width) = 3
    /\ img.data[1] # img.data[3]
    /\ img.data[1][1].blue = file[U32At(file, BITMAP_OFFSET_OFFSET) + 2 * 12 + 1]

(***************************************************************************)
(* C19: the colour equalizer builds its luma table as the grayscale        *)
(* equalizer does.  For the luma histogram of the image, the table that    *)
(* bmp24_equalize gets from bmp8_computeCDF is the table bmp8_computeCDF   *)
(* gives bmp8_equalize for that histogram with numPixels = width * height: *)
(* same cdf_min, same denominator numPixels - cdf_min, same identity       *)
(* table in the degenerate case.                                           *)
(***************************************************************************)
C19_SameLumaTable ==
    (last.op = "bmp24_equalize" /\ last.arg.fail = "none") =>
      bmp24_equalizeTable(last.pre, "none", last.arg.seen)
        = bmp8_computeCDF(bmp24_lumaHistogram(last.pre),
                          last.pre.width * last.pre.height, 0)

(***************************************************************************)
(* C20: grayscale equalization in the non-degenerate case.  With the       *)
(* histogram and the cdf taken over the image's samples and numPixels =    *)
(* width * height, bmp8_equalize replaces every sample p by                *)
(* round((cdf[p] - cdf_min) / (numPixels - cdf_min) * 255), where cdf_min  *)
(* is the smallest nonzero entry of the cdf; an intensity that never       *)
(* occurs maps to 0; every sample of the result lies in 0..255.            *)
(***************************************************************************)
\* round(255 * c / den) over the rationals, halves away from zero
RoundRatio255(c, den) ==
    IF den > 0 THEN (510 * c + den) \div (2 * den)
    ELSE -((510 * c - den) \div (-2 * den))

\* the number of bytes of the buffer that are at most v
CdfOfBuffer(image, v) == Cardinality({i \in 1..image.dataSize : image.data[i] <= v})

EqualizeFollowsFormula(pre, post) ==
    LET numPixels == pre.width * pre.height
        present == {pre.data[i] : i \in 1..pre.dataSize}
        lowest == CHOOSE v \in present : \A u \in present : v <= u
        cdf_min == CdfOfBuffer(pre, lowest)
    IN numPixels - cdf_min # 0 =>
         \A i \in 1..pre.dataSize :
           /\ post.data[i] = RoundRatio255(CdfOfBuffer(pre, pre.data[i]) - cdf_min,
                                           numPixels - cdf_min)
           /\ post.data[i] \in 0..255

C20_EqualizeFormula ==
    (last.op = "bmp8_equalize" /\ last.ok /\ last.pre.dataSize > 0
       /\ last.pre.width * last.pre.height > 0) =>
      EqualizeFollowsFormula(last.pre, img)

\* the same, for the images whose buffer holds width * height samples
EqualizeFormulaOnExactBuffers ==
    (last.op = "bmp8_equalize" /\ last.ok /\ last.pre.dataSize > 0
       /\ last.pre.dataSize = last.pre.width * last.pre.height) =>
      EqualizeFollowsFormula(last.pre, img)

(***************************************************************************)
(* C21: conversion of the convolution result.  In bmp8_applyFilter and in  *)
(* bmp24_applyFilter each interior output sample is the weighted sum       *)
(* rounded to the nearest integer and then clamped to 0..255: a sum of     *)
(* 10.75 under the Gaussian kernel of weights 1/16 gives 11, not 10.       *)
(***************************************************************************)
\* the nearest integer to num/den (halves away from zero), clamped
RoundThenClamp(num, den) ==
    Clamp255(IF num >= 0 THEN (2 * num + den) \div (2 * den)
             ELSE -((den - 2 * num) \div (2 * den)))

Interior(y, x, n, width, height) ==
    y >= n /\ y < height - n /\ x >= n /\ x < width - n

\* the weighted sum, times kernel.den, around sample (y, x) of an 8-bit
\* image (y, x from 0)
WeightedSum8(image, kernel, y, x) ==
    LET n == kernel.size \div 2
    IN SumSeq([j \in 1..(kernel.size * kernel.size) |->
                 image.data[(y + ((j - 1) \div kernel.size) - n) * image.width
                              + (x + ((j - 1) % kernel.size) - n) + 1]
                   * kernel.w[((j - 1) \div kernel.size) + 1][((j - 1) % kernel.size) + 1]],
              kernel.size * kernel.size)

WeightedSum24(image, kernel, y, x, c) ==
    LET n == kernel.size \div 2
    IN SumSeq([j \in 1..(kernel.size * kernel.size) |->
                 PixelByte(image.data[y + ((j - 1) \div kernel.size) - n + 1]
                                     [x + ((j - 1) % kernel.size) - n + 1], c)
                   * kernel.w[((j - 1) \div kernel.size) + 1][((j - 1) % kernel.size) + 1]],
              kernel.size * kernel.size)

FilterRounds8 ==
    (last.op = "bmp8_applyFilter" /\ last.ok
       /\ last.pre.dataSize >= last.pre.width * last.pre.height) =>
      \A y \in 0..(img.height - 1) : \A x \in 0..(img.width - 1) :
        Interior(y, x, last.arg.size \div 2, img.width, img.height) =>
          img.data[y * img.width + x + 1]
            = RoundThenClamp(WeightedSum8(last.pre, last.arg, y, x), last.arg.den)

FilterRounds24 ==
    (last.op = "bmp24_applyFilter" /\ last.ok) =>
      \A y \in 0..(img.height - 1) : \A x \in 0..(img.width - 1) : \A c \in 0..2 :
        Interior(y, x, last.arg.size \div 2, img.width, img.height) =>
          PixelByte(img.data[y + 1][x + 1], c)
            = RoundThenClamp(WeightedSum24(last.pre, last.arg, y, x, c), last.arg.den)

C21_FilterRoundsThenClamps == FilterRounds8 /\ FilterRounds24

(***************************************************************************)
(* C22: convolution reads only pre-filter values.  In bmp8_applyFilter and *)
(* bmp24_applyFilter every output sample of a pass is computed from the    *)
(* image as it was before the pass: the window of each rewritten sample is *)
(* taken from the pre-filter buffer, so no output of the pass feeds        *)
(* another and the order of the visits does not matter.                    *)
(***************************************************************************)
\* the window of the n-neighbourhood of sample (y, x) lies in the buffer
WindowInBuffer8(image, n, y, x) ==
    \A ky \in (-n)..n : \A kx \in (-n)..n :
      /\ (y + ky) * image.width + (x + kx) >= 0
      /\ (y + ky) * image.width + (x + kx) < image.dataSize

C22_FilterReadsSnapshot ==
    /\ (last.op = "bmp8_applyFilter" /\ last.ok) =>
         \A y \in 1..(img.height - 2) : \A x \in 1..(img.width - 2) :
           WindowInBuffer8(last.pre, last.arg.size \div 2, y, x) =>
             img.data[y * img.width + x + 1]
               = Clamp255(TruncDiv(WeightedSum8(last.pre, last.arg, y, x), last.arg.den))
    /\ (last.op = "bmp24_applyFilter" /\ last.ok) =>
         \A y \in 0..(img.height - 1) : \A x \in 0..(img.width - 1) : \A c \in 0..2 :
           Interior(y, x, last.arg.size \div 2, img.width, img.height) =>
             PixelByte(img.data[y + 1][x + 1], c)
               = clamp_uint8(WeightedSum24(last.pre, last.arg, y, x, c), last.arg.den)

\* a colour image with two neighbouring interior pixels, both rewritten
C22_Witness ==
    /\ last.op = "bmp24_applyFilter"
    /\ last.ok
    /\ last.arg = GaussianBlurKernel
    /\ img.width >= 4
    /\ img.height >= 3
    /\ img.data[2][2] # last.pre.data[2][2]
    /\ img.data[2][3] # last.pre.data[2][3]

(***************************************************************************)
(* C23: every buffer allocated inside bmp8_applyFilter, bmp24_applyFilter, *)
(* bmp8_equalize and bmp24_equalize is freed exactly once before the       *)
(* function returns, on the success path and on every path where a later   *)
(* allocation fails: in the heap events of the call every block has one    *)
(* malloc, one free after it, and nothing else is freed.                   *)
(***************************************************************************)
EventsOf(h, e) == {i \in 1..Len(h) : h[i] = e}

Balanced(h) ==
    \A b \in {h[i].blk : i \in 1..Len(h)} :
       /\ Cardinality(EventsOf(h, [ev |-> "malloc", blk |-> b])) = 1
       /\ Cardinality(EventsOf(h, [ev |-> "free", blk |-> b])) = 1
       /\ \A i \in EventsOf(h, [ev |-> "malloc", blk |-> b]) :
            \A j \in EventsOf(h, [ev |-> "free", blk |-> b]) : i < j

AllocatingTransforms ==
    {"bmp8_applyFilter", "bmp24_applyFilter", "bmp8_equalize", "bmp24_equalize"}

C23_TransformBuffersFreedOnce ==
    last.op \in AllocatingTransforms => Balanced(heap)

\* bmp24_equalize fails at a row of yuv_data after earlier rows were allocated
C23_Witness ==
    /\ last.op = "bmp24_equalize"
    /\ last.arg.fail = "row"
    /\ Len(heap) >= 8
    /\ Balanced(heap)

(***************************************************************************)
(* C24: when a load fails after allocation has begun (a row allocation     *)
(* fails in bmp24_allocateDataPixels, or bmp8_loadImage fails at the       *)
(* colour table, the data allocation or the data read), every block        *)
(* allocated so far is freed exactly once and the load returns NULL.       *)
(***************************************************************************)
LoadOps == {"bmp8_loadImage", "bmp24_loadImage"}

C24_FailedLoadFreesAll ==
    (last.op \in LoadOps /\ (~last.ok \/ \E i \in 1..Len(heap) : heap[i].ev = "free")) =>
       /\ img = NULL
       /\ ~last.ok
       /\ Balanced(heap)

\* bmp24_loadImage fails at a row after the image, the row array and at
\* least one row were allocated
C24_Witness ==
    /\ last.op = "bmp24_loadImage"
    /\ ~last.ok
    /\ Len(heap) >= 6
    /\ Balanced(heap)

(***************************************************************************)
(* C25: grayscale equalization of a fully populated linear ramp (256       *)
(* samples, each intensity 0..255 exactly once, numPixels = 256) maps      *)
(* every intensity i to a value that differs from i by at most 1.          *)
(***************************************************************************)
IsRamp(image) ==
    /\ image.kind = "bmp8"
    /\ image.width * image.height = Cardinality(Intensities)
    /\ image.dataSize = Cardinality(Intensities)
    /\ \A v \in Intensities : \E i \in 1..image.dataSize : image.data[i] = v

RampEqualized == last.op = "bmp8_equalize" /\ last.arg = 0 /\ IsRamp(last.pre)

C25_RampNearIdentity ==
    RampEqualized =>
      \A i \in 1..img.dataSize :
         /\ img.data[i] - last.pre.data[i] <= 1
         /\ last.pre.data[i] - img.data[i] <= 1

\* a ramp that is not stored in increasing order has been equalized
C25_Witness ==
    /\ RampEqualized
    /\ last.pre.data[1] # 0
    /\ \A v \in Intensities :
         bmp8_computeCDF(bmp8_computeHistogram(last.pre), 256, 0)[v + 1] = v

(***************************************************************************)
(* C26: in the menu loop of main, after any sequence of menu choices, at   *)
(* most one of currentImage8 and currentImage24 is non-null, and every     *)
(* filter, save or info call is made on a non-null image through the codec *)
(* that loaded it: isColor is 1 whenever currentImage24 is the image in    *)
(* use and 0 whenever currentImage8 is.                                    *)
(***************************************************************************)
ImageChoices == {2, 3, 4}

CodecCall == menu.call.choice \in ImageChoices /\ menu.call.op # "none"

C26_OneImageRightCodec ==
    /\ ~(menu.currentImage8 # NULL /\ menu.currentImage24 # NULL)
    /\ (menu.currentImage24 # NULL =>
          menu.isColor = 1 /\ menu.loadedBy[menu.currentImage24.id] = "bmp24")
    /\ (menu.currentImage8 # NULL =>
          menu.isColor = 0 /\ menu.loadedBy[menu.currentImage8.id] = "bmp8")
    /\ (CodecCall =>
          /\ menu.call.arg # NULL
          /\ menu.loadedBy[menu.call.arg.id] = menu.call.codec)

\* a colour filter runs on a colour image opened after a grayscale one
C26_Witness ==
    /\ menu.loadedBy = <<"bmp8", "bmp24">>
    /\ menu.call.op = "bmp24_gaussianBlur"
    /\ menu.call.arg = [id |-> 2, obj |-> bmp24_loadImage(file, OkEnv24).img]
    /\ menu.currentImage24 # menu.call.arg

(***************************************************************************)
(* C27: in the menu loop of main, every image returned by a successful     *)
(* load is freed exactly once, either by the next Open or by Quit, and no  *)
(* image pointer is used or freed again after it has been freed, for every *)
(* sequence of menu choices ending in Quit.                                *)
(***************************************************************************)
Loaded == 1..Len(menu.freed)

C27_ImagesFreedOnce ==
    /\ ~menu.afterFree
    /\ \A id \in Loaded : menu.freed[id] <= 1
    /\ \A id \in Loaded :
         id < Len(menu.freed) => menu.freed[id] = 1 /\ menu.freedBy[id] = "open"
    /\ (menu.status = "quit" =>
          \A id \in Loaded : menu.freed[id] = 1 /\ menu.freedBy[id] \in {"open", "quit"})
    /\ (menu.status = "running" =>
          \A ptr \in {menu.currentImage8, menu.currentImage24} \ {NULL} :
             menu.freed[ptr.id] = 0)

\* two images were loaded: Open freed the first, Quit the second
C27_Witness ==
    /\ menu.status = "quit"
    /\ menu.loadedBy = <<"bmp24", "bmp24">>
    /\ menu.freed = <<1, 1>>
    /\ menu.freedBy = <<"open", "quit">>

(***************************************************************************)
(* C28: in the menu loop of main, choosing Open discards the previously    *)
(* loaded image before the new load is attempted; if the new file fails to *)
(* load under both codecs, no image is loaded afterwards and every         *)
(* following Save, Apply-filter or Info choice reports that no image is    *)
(* loaded until a later Open succeeds.  As a property of every step: an    *)
(* Open step frees each image held before its first load, a failed Open    *)
(* leaves no image, and a Save, Apply-filter or Info step taken while no   *)
(* image is held reports "no image" and leaves none.                       *)
(***************************************************************************)
NoImage(m) == m.currentImage8 = NULL /\ m.currentImage24 = NULL

LoadEvents == {"bmp24_loadImage", "bmp8_loadImage"}

DiscardedFirst(m, events) ==
    \A ptr \in {m.currentImage8, m.currentImage24} \ {NULL} :
       \E i \in 1..Len(events) :
          /\ events[i].id = ptr.id
          /\ events[i].ev \in {"bmp24_free", "bmp8_free"}
          /\ \A j \in 1..Len(events) : events[j].ev \in LoadEvents => i < j

OpenStep == steps' # steps /\ menu'.call.choice = 1

C28_Step ==
    /\ (OpenStep =>
          /\ DiscardedFirst(menu, menu'.call.events)
          /\ \E j \in 1..Len(menu'.call.events) : menu'.call.events[j].ev \in LoadEvents)
    /\ (OpenStep /\ menu'.call.report = "could not load" => NoImage(menu'))
    /\ (steps' # steps /\ NoImage(menu) /\ menu'.call.choice \in ImageChoices =>
          menu'.call.report = "no image" /\ NoImage(menu'))

C28_OpenDiscardsFirst == [][C28_Step]_vars

\* after an image was loaded and a later Open failed, a choice that needs
\* an image reports that none is loaded
C28_Witness ==
    /\ menu.freed = <<1>>
    /\ menu.freedBy = <<"open">>
    /\ menu.status = "running"
    /\ NoImage(menu)
    /\ menu.call.choice = 2
    /\ menu.call.report = "no image"

(***************************************************************************)
(* C29: every transform (negative, brightness, threshold, grayscale,       *)
(* applyFilter, equalize) changes only pixel samples: width, height,       *)
(* colorDepth, dataSize, the header fields and the 8-bit colour table of   *)
(* the image are the same after the call as before it, and the pixel       *)
(* buffer keeps its size.                                                  *)
(***************************************************************************)
FrameKept8(pre, post) ==
    /\ post.kind = "bmp8"
    /\ post.header = pre.header
    /\ post.colorTable = pre.colorTable
    /\ post.width = pre.width
    /\ post.height = pre.height
    /\ post.colorDepth = pre.colorDepth
    /\ post.dataSize = pre.dataSize
    /\ Len(post.data) = Len(pre.data)
    /\ \A i \in 1..Len(post.data) : post.data[i] \in Byte

FrameKept24(pre, post) ==
    /\ post.kind = "bmp24"
    /\ post.header = pre.header
    /\ post.header_info = pre.header_info
    /\ post.width = pre.width
    /\ post.height = pre.height
    /\ post.colorDepth = pre.colorDepth
    /\ Len(post.data) = Len(pre.data)
    /\ \A y \in 1..Len(post.data) :
         /\ Len(post.data[y]) = Len(pre.data[y])
         /\ \A x \in 1..Len(post.data[y]) :
              \A c \in 0..2 : PixelByte(post.data[y][x], c) \in Byte

PadOps == {"bmp24_readPixelData", "bmp24_writePixelData", "bmp24_saveImage"}

PaddingInRange(width, r) ==
    /\ r.row_padded_size % 4 = 0
    /\ r.row_padded_size >= width * 3
    /\ r.moved \in 0..3
    /\ r.row_padded_size = bmp24_readPadding(width, last.arg.ub).row_padded_size
    /\ r.row_padded_size = bmp24_writePadding(width, last.arg.ub).row_padded_size
    /\ r.row_padded_size = bmp24_saveRowSize(width, last.arg.ub).row_padded_size
    /\ bmp24_writePadding(width, last.arg.ub).padding \in 0..3

C30_PaddedRowSize ==
    last.op \in PadOps => PaddingInRange(last.arg.width, last.pre)

\* the same for the widths whose width*3+3 is an int as well, where it is
\* the value the file models use
PaddedRowSizeWithoutOverflow ==
    (last.op \in PadOps /\ ~IntAddOverflows(last.arg.width * 3, 3)) =>
       /\ PaddingInRange(last.arg.width, last.pre)
       /\ ~last.ub
       /\ (last.arg.width <= MaxPadWidth =>
             last.pre.row_padded_size = RowPaddedSize(last.arg.width))

\* a width of the explored range whose triple is not a multiple of 4
PaddedRowSizeWitness ==
    /\ last.op = "bmp24_writePixelData"
    /\ last.arg.width = (INT_MAX \div 3) - 1
    /\ last.pre.padding = 1

====
